---- MODULE Spec2Model ----
(***************************************************************************)
(* Text-processing core of the AI News Intelligence Hub ingestion          *)
(* pipeline: text cleaning and chunking (processor.py), keyword taxonomy   *)
(* classification (taxonomy.py) and relevance ranking of feed entries      *)
(* (fetcher.py).                                                           *)
(*                                                                         *)
(* A Python str is modelled as a sequence of one-character strings; the    *)
(* Python index i of a character is the sequence index i + 1.              *)
(***************************************************************************)
EXTENDS Integers, Sequences, FiniteSets, TLC

Max2(a, b) == IF a >= b THEN a ELSE b

Min2(a, b) == IF a <= b THEN a ELSE b

MaxOf(S) == CHOOSE x \in S : \A y \in S : y <= x

Range(s) == {s[i] : i \in 1..Len(s)}

RECURSIVE SeqsUpTo(_, _)
SeqsUpTo(A, n) ==
    IF n = 0 THEN {<<>>}
    ELSE LET p == SeqsUpTo(A, n - 1)
         IN  p \cup {Append(s, c) : s \in {x \in p : Len(x) = n - 1}, c \in A}

\* s * n
Repeat(s, n) == [i \in 1..(n * Len(s)) |-> s[((i - 1) % Len(s)) + 1]]

(***************************************************************************)
(* Characters.                                                             *)
(***************************************************************************)
SP == " "

NL == "\n"

TAB == "\t"

\* U+0000, one of the control characters clean_text removes
NUL == "NUL"

\* U+00A0 NO-BREAK SPACE, which NFKC normalisation maps to U+0020
NBSP == "NBSP"

\* str.isspace() on the characters of the model
IsSpace(c) == c \in {SP, NL, TAB, NBSP}

\* the class [\x00-\x08\x0b\x0c\x0e-\x1f\x7f-\x9f]
IsControl(c) == c = NUL

\* the class [^\S\n]
IsHSpace(c) == IsSpace(c) /\ c # NL

\* unicodedata.normalize('NFKC', .) on one character
NFKC(c) == IF c = NBSP THEN SP ELSE c

(***************************************************************************)
(* Python string primitives.                                               *)
(***************************************************************************)
\* s[a:b] with Python's treatment of negative and out-of-range bounds
PySlice(s, a, b) ==
    LET n  == Len(s)
        lo == IF a < 0 THEN Max2(a + n, 0) ELSE Min2(a, n)
        hi == IF b < 0 THEN Max2(b + n, 0) ELSE Min2(b, n)
    IN  IF lo < hi THEN SubSeq(s, lo + 1, hi) ELSE <<>>

\* s.strip()
PyStrip(s) ==
    LET keep == {i \in 1..Len(s) : ~IsSpace(s[i])}
    IN  IF keep = {} THEN <<>>
        ELSE SubSeq(s, CHOOSE i \in keep : \A j \in keep : i <= j, MaxOf(keep))

\* the concatenation f[lo] \o ... \o f[hi], by halving
RECURSIVE Gather(_, _, _)
Gather(f, lo, hi) ==
    IF lo > hi THEN <<>>
    ELSE IF lo = hi THEN f[lo]
    ELSE LET mid == (lo + hi) \div 2
         IN  Gather(f, lo, mid) \o Gather(f, mid + 1, hi)

MapNFKC(s) == [i \in 1..Len(s) |-> NFKC(s[i])]

\* mutant: control characters are kept
RemoveControlKeepsAll(s) == s

\* re.sub(r'[\x00-\x08\x0b\x0c\x0e-\x1f\x7f-\x9f]', '', s)
RemoveControl(s) == SelectSeq(s, LAMBDA c : ~IsControl(c))

\* re.sub(r'[^\S\n]+', ' ', s): each maximal run becomes one space
CollapseHSpace(s) ==
    Gather([i \in 1..Len(s) |->
               IF IsHSpace(s[i])
               THEN IF i < Len(s) /\ IsHSpace(s[i + 1]) THEN <<>> ELSE <<SP>>
               ELSE <<s[i]>>],
           1, Len(s))

\* re.sub(r'\n{3,}', '\n\n', s): each maximal run of 3 or more becomes 2
CollapseNewlines(s) ==
    Gather([i \in 1..Len(s) |->
               IF i + 2 <= Len(s) /\ s[i] = NL /\ s[i + 1] = NL /\ s[i + 2] = NL
               THEN <<>>
               ELSE <<s[i]>>],
           1, Len(s))

\* s.splitlines() for a text whose only line terminator is \n
RECURSIVE SplitLines(_)
SplitLines(s) ==
    IF s = <<>> THEN <<>>
    ELSE LET nls == {i \in 1..Len(s) : s[i] = NL}
         IN  IF nls = {} THEN <<s>>
             ELSE \* the rest of the text is split as a value of its own
                  CHOOSE r \in
                      {<<SubSeq(s, 1, k - 1)>> \o SplitLines(rest) :
                          <<k, rest>> \in
                              {<<j, SubSeq(s, j + 1, Len(s))>> :
                                  j \in {i \in nls : \A m \in nls : i <= m}}} : TRUE

\* '\n'.join(lines)
RECURSIVE JoinLines(_)
JoinLines(lines) ==
    IF lines = <<>> THEN <<>>
    ELSE IF Len(lines) = 1 THEN lines[1]
         ELSE lines[1] \o <<NL>> \o JoinLines(Tail(lines))

\* [line.strip() for line in lines]
StripLines(lines) == [i \in 1..Len(lines) |-> PyStrip(lines[i])]

\* Each step is applied to the value of the step before it (bound as the
\* element of a one-element set).
clean_text(t) ==
    IF t = <<>> THEN <<>>
    ELSE LET normalized == {MapNFKC(x) : x \in {t}}
             uncontrolled == {RemoveControl(x) : x \in normalized}
             spaced == {CollapseHSpace(x) : x \in uncontrolled}
             broken == {CollapseNewlines(x) : x \in spaced}
             lines == {StripLines(y) : y \in {SplitLines(x) : x \in broken}}
             joined == {JoinLines(x) : x \in lines}
         IN  CHOOSE r \in {PyStrip(x) : x \in joined} : TRUE

(***************************************************************************)
(* Bounds of the model.                                                    *)
(***************************************************************************)
\* longest enumerated input text of chunk_text
MaxTextLen == 5

\* longest enumerated input text over RawAlphabet
MaxRawLen == 3

\* largest chunk_size argument
MaxChunkSize == 3

\* largest min_chunk_size argument
MaxMinSize == 2

\* chunk_text's start may fall without limit; iterations are cut off below -MaxBack
MaxBack == 400

(***************************************************************************)
(* Program constants.                                                      *)
(***************************************************************************)
DefaultChunkSize == 1000

DefaultChunkOverlap == 200

DefaultMinChunkSize == 100

SearchRange == 100

(***************************************************************************)
(* State.                                                                  *)
(***************************************************************************)
VARIABLES
    in_text,          \* chunk_text: the text argument
    in_size,          \* chunk_text: the chunk_size argument
    in_overlap,       \* chunk_text: the chunk_overlap argument
    in_min,           \* chunk_text: the min_chunk_size argument
    text,             \* chunk_text: the cleaned text
    chunk_size,       \* chunk_text: chunk_size after defaulting
    chunk_overlap,    \* chunk_text: chunk_overlap after defaulting
    min_chunk_size,   \* chunk_text: min_chunk_size after defaulting
    start,            \* chunk_text: loop variable
    chunks,           \* chunk_text: list of (chunk_text, start, end)
    pc,               \* chunk_text: "call", "while", "body" or "done"
    cl_text,          \* classify_text: the text argument
    cl_results,       \* classify_text: the lists returned by the calls so far
    rk_entries,       \* fetch_feed: feed.entries as parsed
    rk_max,           \* fetch_feed: the max_articles argument
    entries,          \* fetch_feed: entries after line 396, as positions of feed.entries
    rk_pc,            \* fetch_feed: "call" or "done"
    all_batch_results,\* merge_topics: the argument
    mg_i,             \* merge_topics: observations visited by lines 167-172
    topic_map,        \* merge_topics: raw key -> count and set of examples
    mg_k,             \* merge_topics: sorted raw keys visited by lines 177-203
    canonical,        \* merge_topics: buckets in dict order
    folded,           \* history: canonical key -> raw keys merged into its bucket
    topics,           \* merge_topics: the list returned
    mg_pc,            \* merge_topics: "collect", "canon", "done" or "raised"
    sp_text,          \* find_split_point: the text argument
    sp_target,        \* find_split_point: the target_pos argument
    sp_result,        \* find_split_point: the position returned
    sp_pc,            \* find_split_point: "call" or "done"
    cn_text,          \* clean_text: the text argument
    cn_result,        \* clean_text: the text returned
    cn_pc,            \* clean_text: "call" or "done"
    sc_entry,         \* _score_entry_relevance: the entry argument
    sc_score,         \* _score_entry_relevance: the score returned
    sc_pc             \* _score_entry_relevance: "call" or "done"

chunk_vars == <<in_text, in_size, in_overlap, in_min, text, chunk_size,
                chunk_overlap, min_chunk_size, start, chunks, pc>>

classify_vars == <<cl_text, cl_results>>

rank_vars == <<rk_entries, rk_max, entries, rk_pc>>

merge_vars == <<all_batch_results, mg_i, topic_map, mg_k, canonical, folded,
                topics, mg_pc>>

split_vars == <<sp_text, sp_target, sp_result, sp_pc>>

clean_vars == <<cn_text, cn_result, cn_pc>>

score_vars == <<sc_entry, sc_score, sc_pc>>

vars == <<chunk_vars, classify_vars, rank_vars, merge_vars, split_vars, clean_vars, score_vars>>

(***************************************************************************)
(* taxonomy.py: TAXONOMY, in definition order                              *)
(***************************************************************************)
TAXONOMY ==
    <<
      [keyword |-> "OpenAI",
       synonyms |-> <<
         \* openai
         <<"o", "p", "e", "n", "a", "i">>,
         \* chatgpt
         <<"c", "h", "a", "t", "g", "p", "t">>,
         \* gpt-4
         <<"g", "p", "t", "-", "4">>,
         \* gpt-5
         <<"g", "p", "t", "-", "5">>,
         \* gpt-4o
         <<"g", "p", "t", "-", "4", "o">>,
         \* gpt-5.2
         <<"g", "p", "t", "-", "5", ".", "2">>,
         \* gpt-5.3
         <<"g", "p", "t", "-", "5", ".", "3">>,
         \* sam altman
         <<"s", "a", "m", " ", "a", "l", "t", "m", "a", "n">>,
         \* codex
         <<"c", "o", "d", "e", "x">>,
         \* dall-e
         <<"d", "a", "l", "l", "-", "e">>,
         \* dalle
         <<"d", "a", "l", "l", "e">>,
         \* sora
         <<"s", "o", "r", "a">>,
         \* openai api
         <<"o", "p", "e", "n", "a", "i", " ", "a", "p", "i">>
       >>],
      [keyword |-> "Anthropic",
       synonyms |-> <<
         \* anthropic
         <<"a", "n", "t", "h", "r", "o", "p", "i", "c">>,
         \* claude
         <<"c", "l", "a", "u", "d", "e">>,
         \* claude 3
         <<"c", "l", "a", "u", "d", "e", " ", "3">>,
         \* claude 4
         <<"c", "l", "a", "u", "d", "e", " ", "4">>,
         \* claude sonnet
         <<"c", "l", "a", "u", "d", "e", " ", "s", "o", "n", "n", "e", "t">>,
         \* claude opus
         <<"c", "l", "a", "u", "d", "e", " ", "o", "p", "u", "s">>,
         \* claude haiku
         <<"c", "l", "a", "u", "d", "e", " ", "h", "a", "i", "k", "u">>,
         \* dario amodei
         <<"d", "a", "r", "i", "o", " ", "a", "m", "o", "d", "e", "i">>,
         \* constitutional ai
         <<"c", "o", "n", "s", "t", "i", "t", "u", "t", "i", "o", "n", "a", "l", " ", "a", "i">>
       >>],
      [keyword |-> "Google AI",
       synonyms |-> <<
         \* google ai
         <<"g", "o", "o", "g", "l", "e", " ", "a", "i">>,
         \* gemini
         <<"g", "e", "m", "i", "n", "i">>,
         \* deepmind
         <<"d", "e", "e", "p", "m", "i", "n", "d">>,
         \* google deepmind
         <<"g", "o", "o", "g", "l", "e", " ", "d", "e", "e", "p", "m", "i", "n", "d">>,
         \* bard
         <<"b", "a", "r", "d">>,
         \* gemini pro
         <<"g", "e", "m", "i", "n", "i", " ", "p", "r", "o">>,
         \* gemini ultra
         <<"g", "e", "m", "i", "n", "i", " ", "u", "l", "t", "r", "a">>,
         \* google brain
         <<"g", "o", "o", "g", "l", "e", " ", "b", "r", "a", "i", "n">>,
         \* tensorflow
         <<"t", "e", "n", "s", "o", "r", "f", "l", "o", "w">>
       >>],
      [keyword |-> "Microsoft AI",
       synonyms |-> <<
         \* microsoft ai
         <<"m", "i", "c", "r", "o", "s", "o", "f", "t", " ", "a", "i">>,
         \* copilot
         <<"c", "o", "p", "i", "l", "o", "t">>,
         \* github copilot
         <<"g", "i", "t", "h", "u", "b", " ", "c", "o", "p", "i", "l", "o", "t">>,
         \* azure ai
         <<"a", "z", "u", "r", "e", " ", "a", "i">>,
         \* azure openai
         <<"a", "z", "u", "r", "e", " ", "o", "p", "e", "n", "a", "i">>,
         \* bing ai
         <<"b", "i", "n", "g", " ", "a", "i">>,
         \* microsoft copilot
         <<"m", "i", "c", "r", "o", "s", "o", "f", "t", " ", "c", "o", "p", "i", "l", "o", "t">>,
         \* kevin scott
         <<"k", "e", "v", "i", "n", " ", "s", "c", "o", "t", "t">>
       >>],
      [keyword |-> "Meta AI",
       synonyms |-> <<
         \* meta ai
         <<"m", "e", "t", "a", " ", "a", "i">>,
         \* llama
         <<"l", "l", "a", "m", "a">>,
         \* llama 2
         <<"l", "l", "a", "m", "a", " ", "2">>,
         \* llama 3
         <<"l", "l", "a", "m", "a", " ", "3">>,
         \* llama 4
         <<"l", "l", "a", "m", "a", " ", "4">>,
         \* yann lecun
         <<"y", "a", "n", "n", " ", "l", "e", "c", "u", "n">>,
         \* meta llama
         <<"m", "e", "t", "a", " ", "l", "l", "a", "m", "a">>,
         \* facebook ai
         <<"f", "a", "c", "e", "b", "o", "o", "k", " ", "a", "i">>
       >>],
      [keyword |-> "xAI",
       synonyms |-> <<
         \* xai
         <<"x", "a", "i">>,
         \* grok
         <<"g", "r", "o", "k">>,
         \* grok-2
         <<"g", "r", "o", "k", "-", "2">>,
         \* grok-3
         <<"g", "r", "o", "k", "-", "3">>,
         \* elon musk ai
         <<"e", "l", "o", "n", " ", "m", "u", "s", "k", " ", "a", "i">>,
         \* x.ai
         <<"x", ".", "a", "i">>
       >>],
      [keyword |-> "Mistral",
       synonyms |-> <<
         \* mistral
         <<"m", "i", "s", "t", "r", "a", "l">>,
         \* mistral ai
         <<"m", "i", "s", "t", "r", "a", "l", " ", "a", "i">>,
         \* mixtral
         <<"m", "i", "x", "t", "r", "a", "l">>,
         \* mistral large
         <<"m", "i", "s", "t", "r", "a", "l", " ", "l", "a", "r", "g", "e">>,
         \* le chat
         <<"l", "e", " ", "c", "h", "a", "t">>
       >>],
      [keyword |-> "Open Source Models",
       synonyms |-> <<
         \* open source llm
         <<"o", "p", "e", "n", " ", "s", "o", "u", "r", "c", "e", " ", "l", "l", "m">>,
         \* hugging face
         <<"h", "u", "g", "g", "i", "n", "g", " ", "f", "a", "c", "e">>,
         \* huggingface
         <<"h", "u", "g", "g", "i", "n", "g", "f", "a", "c", "e">>,
         \* ollama
         <<"o", "l", "l", "a", "m", "a">>,
         \* open weights
         <<"o", "p", "e", "n", " ", "w", "e", "i", "g", "h", "t", "s">>,
         \* stability ai
         <<"s", "t", "a", "b", "i", "l", "i", "t", "y", " ", "a", "i">>,
         \* stable diffusion
         <<"s", "t", "a", "b", "l", "e", " ", "d", "i", "f", "f", "u", "s", "i", "o", "n">>,
         \* falcon
         <<"f", "a", "l", "c", "o", "n">>,
         \* mpt
         <<"m", "p", "t">>,
         \* open source ai
         <<"o", "p", "e", "n", " ", "s", "o", "u", "r", "c", "e", " ", "a", "i">>
       >>],
      [keyword |-> "ByteDance AI",
       synonyms |-> <<
         \* bytedance
         <<"b", "y", "t", "e", "d", "a", "n", "c", "e">>,
         \* doubao
         <<"d", "o", "u", "b", "a", "o">>,
         \* seedance
         <<"s", "e", "e", "d", "a", "n", "c", "e">>,
         \* bytedance ai
         <<"b", "y", "t", "e", "d", "a", "n", "c", "e", " ", "a", "i">>
       >>],
      [keyword |-> "Nvidia",
       synonyms |-> <<
         \* nvidia
         <<"n", "v", "i", "d", "i", "a">>,
         \* cuda
         <<"c", "u", "d", "a">>,
         \* nvidia ai
         <<"n", "v", "i", "d", "i", "a", " ", "a", "i">>,
         \* jensen huang
         <<"j", "e", "n", "s", "e", "n", " ", "h", "u", "a", "n", "g">>,
         \* h100
         <<"h", "1", "0", "0">>,
         \* a100
         <<"a", "1", "0", "0">>,
         \* nvidia gpu
         <<"n", "v", "i", "d", "i", "a", " ", "g", "p", "u">>,
         \* tensorrt
         <<"t", "e", "n", "s", "o", "r", "r", "t">>,
         \* nvidia inference
         <<"n", "v", "i", "d", "i", "a", " ", "i", "n", "f", "e", "r", "e", "n", "c", "e">>
       >>],
      [keyword |-> "AI Agents",
       synonyms |-> <<
         \* ai agent
         <<"a", "i", " ", "a", "g", "e", "n", "t">>,
         \* ai agents
         <<"a", "i", " ", "a", "g", "e", "n", "t", "s">>,
         \* agentic
         <<"a", "g", "e", "n", "t", "i", "c">>,
         \* agentic ai
         <<"a", "g", "e", "n", "t", "i", "c", " ", "a", "i">>,
         \* autonomous agent
         <<"a", "u", "t", "o", "n", "o", "m", "o", "u", "s", " ", "a", "g", "e", "n", "t">>,
         \* agent framework
         <<"a", "g", "e", "n", "t", " ", "f", "r", "a", "m", "e", "w", "o", "r", "k">>,
         \* multi-agent
         <<"m", "u", "l", "t", "i", "-", "a", "g", "e", "n", "t">>,
         \* agent loop
         <<"a", "g", "e", "n", "t", " ", "l", "o", "o", "p">>,
         \* tool use
         <<"t", "o", "o", "l", " ", "u", "s", "e">>
       >>],
      [keyword |-> "LLMs",
       synonyms |-> <<
         \* llm
         <<"l", "l", "m">>,
         \* llms
         <<"l", "l", "m", "s">>,
         \* large language model
         <<"l", "a", "r", "g", "e", " ", "l", "a", "n", "g", "u", "a", "g", "e", " ", "m", "o", "d", "e", "l">>,
         \* large language models
         <<"l", "a", "r", "g", "e", " ", "l", "a", "n", "g", "u", "a", "g", "e", " ", "m", "o", "d", "e", "l", "s">>,
         \* language model
         <<"l", "a", "n", "g", "u", "a", "g", "e", " ", "m", "o", "d", "e", "l">>,
         \* foundation model
         <<"f", "o", "u", "n", "d", "a", "t", "i", "o", "n", " ", "m", "o", "d", "e", "l">>,
         \* foundation models
         <<"f", "o", "u", "n", "d", "a", "t", "i", "o", "n", " ", "m", "o", "d", "e", "l", "s">>
       >>],
      [keyword |-> "Reinforcement Learning",
       synonyms |-> <<
         \* reinforcement learning
         <<"r", "e", "i", "n", "f", "o", "r", "c", "e", "m", "e", "n", "t", " ", "l", "e", "a", "r", "n", "i", "n", "g">>,
         \* rl
         <<"r", "l">>,
         \* rlhf
         <<"r", "l", "h", "f">>,
         \* ppo
         <<"p", "p", "o">>,
         \* dpo
         <<"d", "p", "o">>,
         \* reward model
         <<"r", "e", "w", "a", "r", "d", " ", "m", "o", "d", "e", "l">>,
         \* policy optimization
         <<"p", "o", "l", "i", "c", "y", " ", "o", "p", "t", "i", "m", "i", "z", "a", "t", "i", "o", "n">>,
         \* deep reinforcement learning
         <<"d", "e", "e", "p", " ", "r", "e", "i", "n", "f", "o", "r", "c", "e", "m", "e", "n", "t", " ", "l", "e", "a", "r", "n", "i", "n", "g">>
       >>],
      [keyword |-> "Multimodal AI",
       synonyms |-> <<
         \* multimodal
         <<"m", "u", "l", "t", "i", "m", "o", "d", "a", "l">>,
         \* vision language
         <<"v", "i", "s", "i", "o", "n", " ", "l", "a", "n", "g", "u", "a", "g", "e">>,
         \* vlm
         <<"v", "l", "m">>,
         \* image understanding
         <<"i", "m", "a", "g", "e", " ", "u", "n", "d", "e", "r", "s", "t", "a", "n", "d", "i", "n", "g">>,
         \* visual language model
         <<"v", "i", "s", "u", "a", "l", " ", "l", "a", "n", "g", "u", "a", "g", "e", " ", "m", "o", "d", "e", "l">>,
         \* multimodal llm
         <<"m", "u", "l", "t", "i", "m", "o", "d", "a", "l", " ", "l", "l", "m">>,
         \* image-text
         <<"i", "m", "a", "g", "e", "-", "t", "e", "x", "t">>
       >>],
      [keyword |-> "Code Generation",
       synonyms |-> <<
         \* code generation
         <<"c", "o", "d", "e", " ", "g", "e", "n", "e", "r", "a", "t", "i", "o", "n">>,
         \* ai coding
         <<"a", "i", " ", "c", "o", "d", "i", "n", "g">>,
         \* code assistant
         <<"c", "o", "d", "e", " ", "a", "s", "s", "i", "s", "t", "a", "n", "t">>,
         \* coding assistant
         <<"c", "o", "d", "i", "n", "g", " ", "a", "s", "s", "i", "s", "t", "a", "n", "t">>,
         \* vibe coding
         <<"v", "i", "b", "e", " ", "c", "o", "d", "i", "n", "g">>,
         \* ai programmer
         <<"a", "i", " ", "p", "r", "o", "g", "r", "a", "m", "m", "e", "r">>,
         \* code completion
         <<"c", "o", "d", "e", " ", "c", "o", "m", "p", "l", "e", "t", "i", "o", "n">>,
         \* code synthesis
         <<"c", "o", "d", "e", " ", "s", "y", "n", "t", "h", "e", "s", "i", "s">>
       >>],
      [keyword |-> "Video Generation",
       synonyms |-> <<
         \* video generation
         <<"v", "i", "d", "e", "o", " ", "g", "e", "n", "e", "r", "a", "t", "i", "o", "n">>,
         \* ai video
         <<"a", "i", " ", "v", "i", "d", "e", "o">>,
         \* text to video
         <<"t", "e", "x", "t", " ", "t", "o", " ", "v", "i", "d", "e", "o">>,
         \* video ai
         <<"v", "i", "d", "e", "o", " ", "a", "i">>,
         \* video synthesis
         <<"v", "i", "d", "e", "o", " ", "s", "y", "n", "t", "h", "e", "s", "i", "s">>,
         \* ai filmmaking
         <<"a", "i", " ", "f", "i", "l", "m", "m", "a", "k", "i", "n", "g">>,
         \* video model
         <<"v", "i", "d", "e", "o", " ", "m", "o", "d", "e", "l">>
       >>],
      [keyword |-> "RAG",
       synonyms |-> <<
         \* rag
         <<"r", "a", "g">>,
         \* retrieval augmented
         <<"r", "e", "t", "r", "i", "e", "v", "a", "l", " ", "a", "u", "g", "m", "e", "n", "t", "e", "d">>,
         \* retrieval-augmented generation
         <<"r", "e", "t", "r", "i", "e", "v", "a", "l", "-", "a", "u", "g", "m", "e", "n", "t", "e", "d", " ", "g", "e", "n", "e", "r", "a", "t", "i", "o", "n">>,
         \* vector search
         <<"v", "e", "c", "t", "o", "r", " ", "s", "e", "a", "r", "c", "h">>,
         \* semantic search
         <<"s", "e", "m", "a", "n", "t", "i", "c", " ", "s", "e", "a", "r", "c", "h">>,
         \* embedding search
         <<"e", "m", "b", "e", "d", "d", "i", "n", "g", " ", "s", "e", "a", "r", "c", "h">>
       >>],
      [keyword |-> "Fine-tuning",
       synonyms |-> <<
         \* fine-tuning
         <<"f", "i", "n", "e", "-", "t", "u", "n", "i", "n", "g">>,
         \* fine tuning
         <<"f", "i", "n", "e", " ", "t", "u", "n", "i", "n", "g">>,
         \* finetuning
         <<"f", "i", "n", "e", "t", "u", "n", "i", "n", "g">>,
         \* lora
         <<"l", "o", "r", "a">>,
         \* qlora
         <<"q", "l", "o", "r", "a">>,
         \* adapter
         <<"a", "d", "a", "p", "t", "e", "r">>,
         \* peft
         <<"p", "e", "f", "t">>,
         \* instruction tuning
         <<"i", "n", "s", "t", "r", "u", "c", "t", "i", "o", "n", " ", "t", "u", "n", "i", "n", "g">>
       >>],
      [keyword |-> "Reasoning",
       synonyms |-> <<
         \* reasoning
         <<"r", "e", "a", "s", "o", "n", "i", "n", "g">>,
         \* chain of thought
         <<"c", "h", "a", "i", "n", " ", "o", "f", " ", "t", "h", "o", "u", "g", "h", "t">>,
         \* chain-of-thought
         <<"c", "h", "a", "i", "n", "-", "o", "f", "-", "t", "h", "o", "u", "g", "h", "t">>,
         \* cot
         <<"c", "o", "t">>,
         \* o1
         <<"o", "1">>,
         \* o3
         <<"o", "3">>,
         \* o4
         <<"o", "4">>,
         \* deep think
         <<"d", "e", "e", "p", " ", "t", "h", "i", "n", "k">>,
         \* step by step reasoning
         <<"s", "t", "e", "p", " ", "b", "y", " ", "s", "t", "e", "p", " ", "r", "e", "a", "s", "o", "n", "i", "n", "g">>
       >>],
      [keyword |-> "AI Benchmarks",
       synonyms |-> <<
         \* benchmark
         <<"b", "e", "n", "c", "h", "m", "a", "r", "k">>,
         \* benchmarking
         <<"b", "e", "n", "c", "h", "m", "a", "r", "k", "i", "n", "g">>,
         \* evaluation
         <<"e", "v", "a", "l", "u", "a", "t", "i", "o", "n">>,
         \* eval
         <<"e", "v", "a", "l">>,
         \* mmlu
         <<"m", "m", "l", "u">>,
         \* leaderboard
         <<"l", "e", "a", "d", "e", "r", "b", "o", "a", "r", "d">>,
         \* ai benchmark
         <<"a", "i", " ", "b", "e", "n", "c", "h", "m", "a", "r", "k">>,
         \* model evaluation
         <<"m", "o", "d", "e", "l", " ", "e", "v", "a", "l", "u", "a", "t", "i", "o", "n">>
       >>],
      [keyword |-> "Enterprise AI",
       synonyms |-> <<
         \* enterprise ai
         <<"e", "n", "t", "e", "r", "p", "r", "i", "s", "e", " ", "a", "i">>,
         \* enterprise
         <<"e", "n", "t", "e", "r", "p", "r", "i", "s", "e">>,
         \* business ai
         <<"b", "u", "s", "i", "n", "e", "s", "s", " ", "a", "i">>,
         \* corporate ai
         <<"c", "o", "r", "p", "o", "r", "a", "t", "e", " ", "a", "i">>,
         \* ai transformation
         <<"a", "i", " ", "t", "r", "a", "n", "s", "f", "o", "r", "m", "a", "t", "i", "o", "n">>,
         \* ai adoption
         <<"a", "i", " ", "a", "d", "o", "p", "t", "i", "o", "n">>,
         \* ai implementation
         <<"a", "i", " ", "i", "m", "p", "l", "e", "m", "e", "n", "t", "a", "t", "i", "o", "n">>
       >>],
      [keyword |-> "Healthcare AI",
       synonyms |-> <<
         \* healthcare ai
         <<"h", "e", "a", "l", "t", "h", "c", "a", "r", "e", " ", "a", "i">>,
         \* medical ai
         <<"m", "e", "d", "i", "c", "a", "l", " ", "a", "i">>,
         \* health ai
         <<"h", "e", "a", "l", "t", "h", " ", "a", "i">>,
         \* clinical ai
         <<"c", "l", "i", "n", "i", "c", "a", "l", " ", "a", "i">>,
         \* diagnosis ai
         <<"d", "i", "a", "g", "n", "o", "s", "i", "s", " ", "a", "i">>,
         \* drug discovery
         <<"d", "r", "u", "g", " ", "d", "i", "s", "c", "o", "v", "e", "r", "y">>,
         \* biomedical ai
         <<"b", "i", "o", "m", "e", "d", "i", "c", "a", "l", " ", "a", "i">>,
         \* health tech
         <<"h", "e", "a", "l", "t", "h", " ", "t", "e", "c", "h">>
       >>],
      [keyword |-> "Education AI",
       synonyms |-> <<
         \* education ai
         <<"e", "d", "u", "c", "a", "t", "i", "o", "n", " ", "a", "i">>,
         \* edtech
         <<"e", "d", "t", "e", "c", "h">>,
         \* ai tutor
         <<"a", "i", " ", "t", "u", "t", "o", "r">>,
         \* learning ai
         <<"l", "e", "a", "r", "n", "i", "n", "g", " ", "a", "i">>,
         \* ai education
         <<"a", "i", " ", "e", "d", "u", "c", "a", "t", "i", "o", "n">>,
         \* ai teaching
         <<"a", "i", " ", "t", "e", "a", "c", "h", "i", "n", "g">>,
         \* educational ai
         <<"e", "d", "u", "c", "a", "t", "i", "o", "n", "a", "l", " ", "a", "i">>,
         \* language learning
         <<"l", "a", "n", "g", "u", "a", "g", "e", " ", "l", "e", "a", "r", "n", "i", "n", "g">>
       >>],
      [keyword |-> "AI Search",
       synonyms |-> <<
         \* ai search
         <<"a", "i", " ", "s", "e", "a", "r", "c", "h">>,
         \* searchgpt
         <<"s", "e", "a", "r", "c", "h", "g", "p", "t">>,
         \* perplexity
         <<"p", "e", "r", "p", "l", "e", "x", "i", "t", "y">>,
         \* search ai
         <<"s", "e", "a", "r", "c", "h", " ", "a", "i">>,
         \* ai-powered search
         <<"a", "i", "-", "p", "o", "w", "e", "r", "e", "d", " ", "s", "e", "a", "r", "c", "h">>,
         \* conversational search
         <<"c", "o", "n", "v", "e", "r", "s", "a", "t", "i", "o", "n", "a", "l", " ", "s", "e", "a", "r", "c", "h">>,
         \* semantic search engine
         <<"s", "e", "m", "a", "n", "t", "i", "c", " ", "s", "e", "a", "r", "c", "h", " ", "e", "n", "g", "i", "n", "e">>
       >>],
      [keyword |-> "Cybersecurity AI",
       synonyms |-> <<
         \* cybersecurity
         <<"c", "y", "b", "e", "r", "s", "e", "c", "u", "r", "i", "t", "y">>,
         \* ai security
         <<"a", "i", " ", "s", "e", "c", "u", "r", "i", "t", "y">>,
         \* security ai
         <<"s", "e", "c", "u", "r", "i", "t", "y", " ", "a", "i">>,
         \* threat detection
         <<"t", "h", "r", "e", "a", "t", " ", "d", "e", "t", "e", "c", "t", "i", "o", "n">>,
         \* malware
         <<"m", "a", "l", "w", "a", "r", "e">>,
         \* cyber attack
         <<"c", "y", "b", "e", "r", " ", "a", "t", "t", "a", "c", "k">>,
         \* hacking
         <<"h", "a", "c", "k", "i", "n", "g">>,
         \* infosec ai
         <<"i", "n", "f", "o", "s", "e", "c", " ", "a", "i">>
       >>],
      [keyword |-> "Robotics",
       synonyms |-> <<
         \* robotics
         <<"r", "o", "b", "o", "t", "i", "c", "s">>,
         \* robot
         <<"r", "o", "b", "o", "t">>,
         \* humanoid
         <<"h", "u", "m", "a", "n", "o", "i", "d">>,
         \* robotic
         <<"r", "o", "b", "o", "t", "i", "c">>,
         \* manipulation
         <<"m", "a", "n", "i", "p", "u", "l", "a", "t", "i", "o", "n">>,
         \* embodied ai
         <<"e", "m", "b", "o", "d", "i", "e", "d", " ", "a", "i">>,
         \* robot learning
         <<"r", "o", "b", "o", "t", " ", "l", "e", "a", "r", "n", "i", "n", "g">>,
         \* autonomous robot
         <<"a", "u", "t", "o", "n", "o", "m", "o", "u", "s", " ", "r", "o", "b", "o", "t">>
       >>],
      [keyword |-> "AI Infrastructure",
       synonyms |-> <<
         \* ai infrastructure
         <<"a", "i", " ", "i", "n", "f", "r", "a", "s", "t", "r", "u", "c", "t", "u", "r", "e">>,
         \* data center
         <<"d", "a", "t", "a", " ", "c", "e", "n", "t", "e", "r">>,
         \* ai chip
         <<"a", "i", " ", "c", "h", "i", "p">>,
         \* ai hardware
         <<"a", "i", " ", "h", "a", "r", "d", "w", "a", "r", "e">>,
         \* compute
         <<"c", "o", "m", "p", "u", "t", "e">>,
         \* gpu cluster
         <<"g", "p", "u", " ", "c", "l", "u", "s", "t", "e", "r">>,
         \* inference chip
         <<"i", "n", "f", "e", "r", "e", "n", "c", "e", " ", "c", "h", "i", "p">>,
         \* ai server
         <<"a", "i", " ", "s", "e", "r", "v", "e", "r">>,
         \* tpu
         <<"t", "p", "u">>
       >>],
      [keyword |-> "Creative AI",
       synonyms |-> <<
         \* ai art
         <<"a", "i", " ", "a", "r", "t">>,
         \* generative art
         <<"g", "e", "n", "e", "r", "a", "t", "i", "v", "e", " ", "a", "r", "t">>,
         \* ai music
         <<"a", "i", " ", "m", "u", "s", "i", "c">>,
         \* ai creative
         <<"a", "i", " ", "c", "r", "e", "a", "t", "i", "v", "e">>,
         \* ai design
         <<"a", "i", " ", "d", "e", "s", "i", "g", "n">>,
         \* creative ai
         <<"c", "r", "e", "a", "t", "i", "v", "e", " ", "a", "i">>,
         \* ai animation
         <<"a", "i", " ", "a", "n", "i", "m", "a", "t", "i", "o", "n">>,
         \* ai filmmaking
         <<"a", "i", " ", "f", "i", "l", "m", "m", "a", "k", "i", "n", "g">>
       >>],
      [keyword |-> "AI Safety",
       synonyms |-> <<
         \* ai safety
         <<"a", "i", " ", "s", "a", "f", "e", "t", "y">>,
         \* alignment
         <<"a", "l", "i", "g", "n", "m", "e", "n", "t">>,
         \* ai alignment
         <<"a", "i", " ", "a", "l", "i", "g", "n", "m", "e", "n", "t">>,
         \* existential risk
         <<"e", "x", "i", "s", "t", "e", "n", "t", "i", "a", "l", " ", "r", "i", "s", "k">>,
         \* x-risk
         <<"x", "-", "r", "i", "s", "k">>,
         \* ai risk
         <<"a", "i", " ", "r", "i", "s", "k">>,
         \* safe ai
         <<"s", "a", "f", "e", " ", "a", "i">>,
         \* safety research
         <<"s", "a", "f", "e", "t", "y", " ", "r", "e", "s", "e", "a", "r", "c", "h">>
       >>],
      [keyword |-> "AI Ethics",
       synonyms |-> <<
         \* ai ethics
         <<"a", "i", " ", "e", "t", "h", "i", "c", "s">>,
         \* bias
         <<"b", "i", "a", "s">>,
         \* fairness
         <<"f", "a", "i", "r", "n", "e", "s", "s">>,
         \* responsible ai
         <<"r", "e", "s", "p", "o", "n", "s", "i", "b", "l", "e", " ", "a", "i">>,
         \* ai bias
         <<"a", "i", " ", "b", "i", "a", "s">>,
         \* ethical ai
         <<"e", "t", "h", "i", "c", "a", "l", " ", "a", "i">>,
         \* discrimination
         <<"d", "i", "s", "c", "r", "i", "m", "i", "n", "a", "t", "i", "o", "n">>,
         \* ai fairness
         <<"a", "i", " ", "f", "a", "i", "r", "n", "e", "s", "s">>
       >>],
      [keyword |-> "AI Regulation",
       synonyms |-> <<
         \* ai regulation
         <<"a", "i", " ", "r", "e", "g", "u", "l", "a", "t", "i", "o", "n">>,
         \* ai law
         <<"a", "i", " ", "l", "a", "w">>,
         \* eu ai act
         <<"e", "u", " ", "a", "i", " ", "a", "c", "t">>,
         \* ai governance
         <<"a", "i", " ", "g", "o", "v", "e", "r", "n", "a", "n", "c", "e">>,
         \* ai policy
         <<"a", "i", " ", "p", "o", "l", "i", "c", "y">>,
         \* regulate ai
         <<"r", "e", "g", "u", "l", "a", "t", "e", " ", "a", "i">>,
         \* ai legislation
         <<"a", "i", " ", "l", "e", "g", "i", "s", "l", "a", "t", "i", "o", "n">>,
         \* government ai
         <<"g", "o", "v", "e", "r", "n", "m", "e", "n", "t", " ", "a", "i">>
       >>],
      [keyword |-> "Job Market",
       synonyms |-> <<
         \* job loss
         <<"j", "o", "b", " ", "l", "o", "s", "s">>,
         \* job market
         <<"j", "o", "b", " ", "m", "a", "r", "k", "e", "t">>,
         \* automation
         <<"a", "u", "t", "o", "m", "a", "t", "i", "o", "n">>,
         \* ai jobs
         <<"a", "i", " ", "j", "o", "b", "s">>,
         \* workforce
         <<"w", "o", "r", "k", "f", "o", "r", "c", "e">>,
         \* employment
         <<"e", "m", "p", "l", "o", "y", "m", "e", "n", "t">>,
         \* job displacement
         <<"j", "o", "b", " ", "d", "i", "s", "p", "l", "a", "c", "e", "m", "e", "n", "t">>,
         \* future of work
         <<"f", "u", "t", "u", "r", "e", " ", "o", "f", " ", "w", "o", "r", "k">>,
         \* ai replacing
         <<"a", "i", " ", "r", "e", "p", "l", "a", "c", "i", "n", "g">>
       >>],
      [keyword |-> "AI Startups",
       synonyms |-> <<
         \* ai startup
         <<"a", "i", " ", "s", "t", "a", "r", "t", "u", "p">>,
         \* funding
         <<"f", "u", "n", "d", "i", "n", "g">>,
         \* investment
         <<"i", "n", "v", "e", "s", "t", "m", "e", "n", "t">>,
         \* venture capital
         <<"v", "e", "n", "t", "u", "r", "e", " ", "c", "a", "p", "i", "t", "a", "l">>,
         \* vc
         <<"v", "c">>,
         \* seed round
         <<"s", "e", "e", "d", " ", "r", "o", "u", "n", "d">>,
         \* series a
         <<"s", "e", "r", "i", "e", "s", " ", "a">>,
         \* ai investment
         <<"a", "i", " ", "i", "n", "v", "e", "s", "t", "m", "e", "n", "t">>,
         \* startup
         <<"s", "t", "a", "r", "t", "u", "p">>,
         \* ipo
         <<"i", "p", "o">>
       >>],
      [keyword |-> "AI Research",
       synonyms |-> <<
         \* research
         <<"r", "e", "s", "e", "a", "r", "c", "h">>,
         \* paper
         <<"p", "a", "p", "e", "r">>,
         \* arxiv
         <<"a", "r", "x", "i", "v">>,
         \* study
         <<"s", "t", "u", "d", "y">>,
         \* researchers
         <<"r", "e", "s", "e", "a", "r", "c", "h", "e", "r", "s">>,
         \* scientific
         <<"s", "c", "i", "e", "n", "t", "i", "f", "i", "c">>,
         \* academic
         <<"a", "c", "a", "d", "e", "m", "i", "c">>,
         \* breakthrough
         <<"b", "r", "e", "a", "k", "t", "h", "r", "o", "u", "g", "h">>,
         \* discovery
         <<"d", "i", "s", "c", "o", "v", "e", "r", "y">>
       >>],
      [keyword |-> "Accessibility",
       synonyms |-> <<
         \* accessibility
         <<"a", "c", "c", "e", "s", "s", "i", "b", "i", "l", "i", "t", "y">>,
         \* accessible
         <<"a", "c", "c", "e", "s", "s", "i", "b", "l", "e">>,
         \* disability
         <<"d", "i", "s", "a", "b", "i", "l", "i", "t", "y">>,
         \* deaf
         <<"d", "e", "a", "f">>,
         \* blind
         <<"b", "l", "i", "n", "d">>,
         \* assistive
         <<"a", "s", "s", "i", "s", "t", "i", "v", "e">>,
         \* inclusive ai
         <<"i", "n", "c", "l", "u", "s", "i", "v", "e", " ", "a", "i">>,
         \* a11y
         <<"a", "1", "1", "y">>
       >>]
    >>

(***************************************************************************)
(* Python string primitives of the classifier and the ranker.              *)
(***************************************************************************)
UpperToLower ==
    [A |-> "a", B |-> "b", C |-> "c", D |-> "d", E |-> "e", F |-> "f",
     G |-> "g", H |-> "h", I |-> "i", J |-> "j", K |-> "k", L |-> "l",
     M |-> "m", N |-> "n", O |-> "o", P |-> "p", Q |-> "q", R |-> "r",
     S |-> "s", T |-> "t", U |-> "u", V |-> "v", W |-> "w", X |-> "x",
     Y |-> "y", Z |-> "z"]

\* str.lower() on one ASCII character
Lower(c) == IF c \in DOMAIN UpperToLower THEN UpperToLower[c] ELSE c

\* s.lower()
LowerStr(s) == [i \in 1..Len(s) |-> Lower(s[i])]

\* "sub in s" on two strings
Contains(sub, s) ==
    \E i \in 0..(Len(s) - Len(sub)) : \A j \in 1..Len(sub) : s[i + j] = sub[j]

(***************************************************************************)
(* taxonomy.py: classify_text                                              *)
(***************************************************************************)
\* mutant: the text is matched as written
text_lower_unchanged(t) == t

\* line 170: text_lower = text.lower()
text_lower(t) == LowerStr(t)

\* mutant: no break after the first matching synonym
RECURSIVE ScanSynonymsNoBreak(_, _, _, _)
ScanSynonymsNoBreak(keyword, synonyms, j, lowered) ==
    IF j > Len(synonyms) THEN <<>>
    ELSE IF Contains(LowerStr(synonyms[j]), lowered)
         THEN <<keyword>> \o ScanSynonymsNoBreak(keyword, synonyms, j + 1, lowered)
         ELSE ScanSynonymsNoBreak(keyword, synonyms, j + 1, lowered)

\* lines 174-177: the inner loop from synonym j on; what it appends
RECURSIVE ScanSynonyms(_, _, _, _)
ScanSynonyms(keyword, synonyms, j, lowered) ==
    IF j > Len(synonyms) THEN <<>>
    ELSE IF Contains(LowerStr(synonyms[j]), lowered)
         THEN <<keyword>>
         ELSE ScanSynonyms(keyword, synonyms, j + 1, lowered)

\* lines 173-177: the outer loop from taxonomy item k on
RECURSIVE ScanTaxonomy(_, _, _)
ScanTaxonomy(k, lowered, matched_keywords) ==
    IF k > Len(TAXONOMY) THEN matched_keywords
    ELSE ScanTaxonomy(k + 1, lowered,
             matched_keywords
                 \o ScanSynonyms(TAXONOMY[k].keyword, TAXONOMY[k].synonyms, 1, lowered))

classify_text(t) ==
    CHOOSE r \in {ScanTaxonomy(1, lowered, <<>>) : lowered \in {text_lower(t)}} : TRUE

\* longest input of classify_text, in words
MaxWords == 2

\* calls of classify_text on one text
MaxCalls == 2

Words ==
    { <<"O", "p", "e", "n", "A", "I">>,
      <<"G", "P", "T", "-", "5">>,
      <<"r", "e", "a", "s", "o", "n", "i", "n", "g">>,
      <<"C", "l", "a", "u", "d", "e">>,
      <<"O", "p", "u", "s">>,
      <<"w", "o", "r", "l", "d">>,
      <<"S", "a", "m">>,
      <<"A", "l", "t", "m", "a", "n">>,
      <<"L", "L", "M", "s">> }

RECURSIVE JoinWords(_)
JoinWords(ws) ==
    IF ws = <<>> THEN <<>>
    ELSE IF Len(ws) = 1 THEN ws[1]
         ELSE ws[1] \o <<SP>> \o JoinWords(Tail(ws))

\* test_taxonomy.py line 9, as quoted by the specification
ExampleText ==
    JoinWords(<< <<"O", "p", "e", "n", "A", "I">>,
                 <<"r", "e", "l", "e", "a", "s", "e", "s">>,
                 <<"G", "P", "T", "-", "5">>,
                 <<"w", "i", "t", "h">>,
                 <<"i", "m", "p", "r", "o", "v", "e", "d">>,
                 <<"r", "e", "a", "s", "o", "n", "i", "n", "g">> >>)

ClassifyTexts == {JoinWords(ws) : ws \in SeqsUpTo(Words, MaxWords)} \cup {ExampleText}

ClassifyInit ==
    /\ cl_text \in ClassifyTexts
    /\ cl_results = <<>>
    \* chunk_text and the ranker are not running
    /\ in_text = <<>>
    /\ in_size = 0
    /\ in_overlap = 0
    /\ in_min = 0
    /\ text = <<>>
    /\ chunk_size = 0
    /\ chunk_overlap = 0
    /\ min_chunk_size = 0
    /\ start = 0
    /\ chunks = <<>>
    /\ pc = "idle"
    /\ rk_entries = <<>>
    /\ rk_max = 0
    /\ entries = <<>>
    /\ rk_pc = "idle"
    /\ all_batch_results = <<>>
    /\ mg_i = 0
    /\ topic_map = <<>>
    /\ mg_k = 0
    /\ canonical = <<>>
    /\ folded = <<>>
    /\ topics = <<>>
    /\ mg_pc = "idle"
    /\ sp_text = <<>>
    /\ sp_target = 0
    /\ sp_result = 0
    /\ sp_pc = "idle"
    /\ cn_text = <<>>
    /\ cn_result = <<>>
    /\ cn_pc = "idle"
    /\ sc_entry = <<>>
    /\ sc_score = 0
    /\ sc_pc = "idle"

\* one call classify_text(cl_text)
Classify ==
    /\ Len(cl_results) < MaxCalls
    /\ cl_results' = Append(cl_results, classify_text(cl_text))
    /\ UNCHANGED cl_text

ClassifyNext == Classify

ClassifySpec ==
    ClassifyInit
        /\ [][ClassifyNext /\ UNCHANGED <<chunk_vars, rank_vars, merge_vars, split_vars, clean_vars, score_vars>>]_vars

(***************************************************************************)
(* processor.py: find_split_point                                          *)
(***************************************************************************)
find_split_pointNearest(t, target_pos0) ==
    LET n          == Len(t)
        target_pos == Min2(target_pos0, n)
        lo         == Max2(0, target_pos - SearchRange)
        win        == (lo + 1)..target_pos
        at(i)      == t[i + 1]
        para   == {i \in win : i < n - 1 /\ at(i) = NL /\ at(i + 1) = NL}
        other  == {i \in win : i < n /\
                      \/ at(i) \in {".", "!", "?"} /\ (i + 1 >= n \/ at(i + 1) \in {SP, NL})
                      \/ at(i) \in {",", ";", ":"} /\ (i + 1 >= n \/ at(i + 1) = SP)
                      \/ at(i) = SP}
        all    == para \cup other
    IN  IF all = {} THEN target_pos
        ELSE IF MaxOf(all) \in para THEN MaxOf(all) + 2
        ELSE MaxOf(all) + 1

find_split_point(t, target_pos0) ==
    LET n          == Len(t)
        target_pos == Min2(target_pos0, n)
        lo         == Max2(0, target_pos - SearchRange)
        \* range(target_pos, start, -1)
        win        == (lo + 1)..target_pos
        at(i)      == t[i + 1]
        para   == {i \in win : i < n - 1 /\ at(i) = NL /\ at(i + 1) = NL}
        sent   == {i \in win : i < n /\ at(i) \in {".", "!", "?"}
                                 /\ (i + 1 >= n \/ at(i + 1) \in {SP, NL})}
        clause == {i \in win : i < n /\ at(i) \in {",", ";", ":"}
                                 /\ (i + 1 >= n \/ at(i + 1) = SP)}
        word   == {i \in win : i < n /\ at(i) = SP}
    IN  IF para # {} THEN MaxOf(para) + 2
        ELSE IF sent # {} THEN MaxOf(sent) + 1
        ELSE IF clause # {} THEN MaxOf(clause) + 1
        ELSE IF word # {} THEN MaxOf(word) + 1
        ELSE target_pos

(***************************************************************************)
(* processor.py: chunk_text                                                *)
(***************************************************************************)
\* "x or default" on an int argument (None and 0 are both falsy)
OrDefault(x, d) == IF x # 0 THEN x ELSE d

\* mutant: the progress check is left out
NoProgressNever(s, cs) == FALSE

\* "start <= chunks[-1][1] if chunks else 0", used as the condition of an if
NoProgress(s, cs) == IF cs # <<>> THEN s <= cs[Len(cs)][2] ELSE FALSE

\* mutant: "len(text) < chunk_size"
FitsInOneChunkStrict(t, size) == Len(t) < size

\* line 172: "len(text) <= chunk_size"
FitsInOneChunk(t, size) == Len(t) <= size

\* lines 161-176: defaulting, cleaning and the two early returns
ChunkCall ==
    /\ pc = "call"
    /\ \E size \in {OrDefault(in_size, DefaultChunkSize)},
          cleaned \in {clean_text(in_text)} :
           /\ chunk_size' = size
           /\ chunk_overlap' = OrDefault(in_overlap, DefaultChunkOverlap)
           /\ min_chunk_size' = OrDefault(in_min, DefaultMinChunkSize)
           /\ text' = cleaned
           /\ start' = 0
           /\ IF cleaned = <<>>
              THEN chunks' = <<>> /\ pc' = "done"
              ELSE IF FitsInOneChunk(cleaned, size)
                   THEN chunks' = << <<cleaned, 0, Len(cleaned)>> >> /\ pc' = "done"
                   ELSE chunks' = <<>> /\ pc' = "while"
    /\ UNCHANGED <<in_text, in_size, in_overlap, in_min>>

\* line 178: the loop condition holds and the body is entered
ChunkWhile ==
    /\ pc = "while"
    /\ start < Len(text)
    /\ start >= -MaxBack
    /\ pc' = "body"
    /\ UNCHANGED <<in_text, in_size, in_overlap, in_min, text, chunk_size,
                   chunk_overlap, min_chunk_size, start, chunks>>

\* lines 179-201: the body of the while loop
ChunkIterate ==
    /\ pc = "body"
    /\ LET end0  == start + chunk_size
           end   == IF end0 < Len(text) THEN find_split_point(text, end0)
                                        ELSE Len(text)
           piece == PyStrip(PySlice(text, start, end))
           kept  == IF Len(piece) >= min_chunk_size
                    THEN Append(chunks, <<piece, start, end>>)
                    ELSE chunks
           next  == end - chunk_overlap
       IN  /\ chunks' = kept
           /\ start' = IF NoProgress(next, kept) THEN end ELSE next
    /\ pc' = "while"
    /\ UNCHANGED <<in_text, in_size, in_overlap, in_min, text, chunk_size,
                   chunk_overlap, min_chunk_size>>

\* line 178 false, line 203: the loop ends and chunks is returned
ChunkReturn ==
    /\ pc = "while"
    /\ start >= Len(text)
    /\ pc' = "done"
    /\ UNCHANGED <<in_text, in_size, in_overlap, in_min, text, chunk_size,
                   chunk_overlap, min_chunk_size, start, chunks>>

(***************************************************************************)
(* Inputs of chunk_text.                                                   *)
(***************************************************************************)
ChunkAlphabet == {"a", SP, NL, ".", ","}

\* texts longer than the search window and about as long as the default overlap
LongTexts ==
    { <<"a", SP>> \o Repeat(<<"b", "b", SP>>, 65) \o <<"b">>,
      Repeat(<<"a">>, 120) \o <<".", SP>> \o Repeat(<<"b">>, 120) }

\* characters that clean_text rewrites or removes
RawAlphabet == {"a", SP, NL, TAB, NUL, NBSP}

ChunkTexts ==
    SeqsUpTo(ChunkAlphabet, MaxTextLen) \cup SeqsUpTo(RawAlphabet, MaxRawLen)
        \cup LongTexts

\* a chunk_size for which the default chunk_overlap is a valid overlap
WideChunkSize == DefaultChunkOverlap + 2

\* texts one character longer than a chunk_size above the default overlap,
\* or just above the default min_chunk_size
WideTexts ==
    {Repeat(<<"a">>, WideChunkSize + 1), Repeat(<<"a">>, DefaultMinChunkSize + 2)}

ChunkInit ==
    /\ in_text \in ChunkTexts \cup WideTexts
    /\ in_size \in IF in_text \in WideTexts THEN {Len(in_text) - 1} ELSE 1..MaxChunkSize
    /\ in_overlap \in IF in_text \in WideTexts THEN {0, 1} ELSE 0..(in_size - 1)
    /\ in_min \in 0..MaxMinSize
    /\ text = <<>>
    /\ chunk_size = 0
    /\ chunk_overlap = 0
    /\ min_chunk_size = 0
    /\ start = 0
    /\ chunks = <<>>
    /\ pc = "call"
    \* the classifier and the ranker are not running
    /\ cl_text = <<>>
    /\ cl_results = <<>>
    /\ rk_entries = <<>>
    /\ rk_max = 0
    /\ entries = <<>>
    /\ rk_pc = "idle"
    /\ all_batch_results = <<>>
    /\ mg_i = 0
    /\ topic_map = <<>>
    /\ mg_k = 0
    /\ canonical = <<>>
    /\ folded = <<>>
    /\ topics = <<>>
    /\ mg_pc = "idle"
    /\ sp_text = <<>>
    /\ sp_target = 0
    /\ sp_result = 0
    /\ sp_pc = "idle"
    /\ cn_text = <<>>
    /\ cn_result = <<>>
    /\ cn_pc = "idle"
    /\ sc_entry = <<>>
    /\ sc_score = 0
    /\ sc_pc = "idle"

ChunkNext == ChunkCall \/ ChunkWhile \/ ChunkIterate \/ ChunkReturn

Spec ==
    ChunkInit
        /\ [][ChunkNext /\ UNCHANGED <<classify_vars, rank_vars, merge_vars, split_vars, clean_vars, score_vars>>]_vars

(***************************************************************************)
(* Termination is checked on a smaller set of calls with a non-zero        *)
(* overlap (start then never falls below -chunk_overlap), under weak       *)
(* fairness: a running call always executes its next statement.            *)
(***************************************************************************)
\* longest text of the termination check
MaxTermLen == 6

TermTexts ==
    {Repeat(<<"a">>, n) : n \in 0..MaxTermLen}
        \cup {Repeat(<<"a", SP>>, n) \o <<"a">> : n \in 1..(MaxTermLen \div 2)}

TermInit ==
    /\ in_text \in TermTexts
    /\ in_size \in 2..MaxChunkSize
    /\ in_overlap \in 1..(in_size - 1)
    /\ in_min \in 0..(MaxMinSize + 2)
    /\ text = <<>>
    /\ chunk_size = 0
    /\ chunk_overlap = 0
    /\ min_chunk_size = 0
    /\ start = 0
    /\ chunks = <<>>
    /\ pc = "call"
    \* the classifier and the ranker are not running
    /\ cl_text = <<>>
    /\ cl_results = <<>>
    /\ rk_entries = <<>>
    /\ rk_max = 0
    /\ entries = <<>>
    /\ rk_pc = "idle"
    /\ all_batch_results = <<>>
    /\ mg_i = 0
    /\ topic_map = <<>>
    /\ mg_k = 0
    /\ canonical = <<>>
    /\ folded = <<>>
    /\ topics = <<>>
    /\ mg_pc = "idle"
    /\ sp_text = <<>>
    /\ sp_target = 0
    /\ sp_result = 0
    /\ sp_pc = "idle"
    /\ cn_text = <<>>
    /\ cn_result = <<>>
    /\ cn_pc = "idle"
    /\ sc_entry = <<>>
    /\ sc_score = 0
    /\ sc_pc = "idle"

TermSpec ==
    TermInit
        /\ [][ChunkNext /\ UNCHANGED <<classify_vars, rank_vars, merge_vars, split_vars, clean_vars, score_vars>>]_vars
        /\ WF_vars(ChunkNext /\ UNCHANGED <<classify_vars, rank_vars, merge_vars, split_vars, clean_vars, score_vars>>)

(***************************************************************************)
(* Claims about chunk_text.                                                *)
(***************************************************************************)
SpanStart(k) == chunks[k][2]

SpanEnd(k) == chunks[k][3]

\* C1: every call of chunk_text with chunk_size > 0, 0 <= chunk_overlap <
\* chunk_size and min_chunk_size >= 0 eventually returns.
ChunkTextTerminates == <>(pc = "done")

Covered(p) == \E k \in 1..Len(chunks) : SpanStart(k) <= p /\ p < SpanEnd(k)

\* the non-blank characters of the cleaned text that no emitted span covers
Lost == {p \in 0..(Len(text) - 1) : ~Covered(p) /\ ~IsSpace(text[p + 1])}

\* C2: when chunk_text returns, every non-blank character of the cleaned
\* text lies in the range of an emitted span, except for a final tail
\* (nothing after its first lost character is covered) whose trimmed
\* length is below min_chunk_size.  This is implied by the claim, which
\* asks the same of every position and of the untrimmed tail.
SegmentationCoverage ==
    pc = "done" /\ Lost # {} =>
        LET q == CHOOSE p \in Lost : \A r \in Lost : p <= r
        IN  /\ \A r \in q..(Len(text) - 1) : ~Covered(r)
            /\ Len(PyStrip(PySlice(text, q, Len(text)))) < min_chunk_size

\* C3: every span of the returned list satisfies
\* 0 <= start < end <= len(cleaned text).
SpanOffsetsInRange ==
    pc = "done" =>
        \A k \in 1..Len(chunks) :
            0 <= SpanStart(k) /\ SpanStart(k) < SpanEnd(k) /\ SpanEnd(k) <= Len(text)

\* C4: the start offsets of the emitted spans, in list order, never decrease.
StartsNonDecreasing ==
    \A i, j \in 1..Len(chunks) : i < j => SpanStart(i) <= SpanStart(j)

\* a returned list of at least three spans, consecutive ones overlapping
StartsNonDecreasingWitness ==
    /\ pc = "done"
    /\ Len(chunks) >= 3
    /\ \A k \in 1..(Len(chunks) - 1) : SpanStart(k + 1) < SpanEnd(k)

\* C5: a non-empty cleaned text no longer than the chunk_size argument is
\* returned as the single span (text, 0, len(text)), whatever min_chunk_size.
ShortTextSingleSpan ==
    pc = "done" /\ text # <<>> /\ Len(text) <= in_size
        => chunks = << <<text, 0, Len(text)>> >>

\* a whole text shorter than the min_chunk_size argument is still returned
ShortTextSingleSpanWitness ==
    /\ pc = "done"
    /\ text # <<>>
    /\ Len(text) <= in_size
    /\ Len(text) < in_min
    /\ Len(chunks) = 1

\* the input consists of whitespace and control characters only
BlankInput == \A i \in 1..Len(in_text) : IsSpace(in_text[i]) \/ IsControl(in_text[i])

\* C6: chunk_text returns the empty list for the empty string and for an
\* input of whitespace and control characters only (which cleans to the
\* empty string), and the call is never anywhere but at one of its four
\* control points (no statement of it raises; an index out of range would
\* stop the evaluation of the model).
BlankInputNoChunks ==
    /\ pc \in {"call", "while", "body", "done"}
    /\ (pc = "done" /\ BlankInput => chunks = <<>> /\ text = <<>>)

\* a returned call on a non-empty input with a control character in it
BlankInputNoChunksWitness ==
    /\ pc = "done"
    /\ BlankInput
    /\ \E i \in 1..Len(in_text) : IsControl(in_text[i])
    /\ \E i \in 1..Len(in_text) : IsSpace(in_text[i])
    /\ chunks = <<>>

\* the end offset that lines 181-186 compute in the current iteration
IterationEnd ==
    IF start + chunk_size < Len(text)
    THEN find_split_point(text, start + chunk_size)
    ELSE Len(text)

\* C19: every iteration of the loop leaves start strictly greater than it
\* found it; when end - chunk_overlap does not exceed the start of the last
\* emitted span, start is set to end, and end is greater than the start the
\* iteration began with.
ForwardProgress ==
    [][pc = "body" /\ pc' = "while" =>
           /\ start' > start
           /\ (chunks' # <<>> /\ IterationEnd - chunk_overlap <= chunks'[Len(chunks')][2])
                  => start' = IterationEnd /\ IterationEnd > start]_vars

\* C20: consecutive emitted spans overlap by at most the chunk_overlap
\* argument; with the argument 0 they do not overlap.
OverlapBounded ==
    pc = "done" =>
        \A k \in 1..(Len(chunks) - 1) : SpanEnd(k) - SpanStart(k + 1) <= in_overlap

\* C21: every span of the returned list is at most chunk_size long, by its
\* offsets and by its text.
SizeBounded ==
    pc = "done" =>
        \A k \in 1..Len(chunks) :
            SpanEnd(k) - SpanStart(k) <= in_size /\ Len(chunks[k][1]) <= in_size

\* C23: an iteration of the loop emits its slice if and only if the trimmed
\* slice is at least as long as the min_chunk_size argument (always, for the
\* argument 0), and what it emits is the trimmed slice with its offsets.
MinSizeRule ==
    [][pc = "body" /\ pc' = "while" =>
           LET piece == PyStrip(PySlice(text, start, IterationEnd))
           IN  IF Len(piece) >= in_min
               THEN chunks' = Append(chunks, <<piece, start, IterationEnd>>)
               ELSE chunks' = chunks]_vars

\* C29: in the returned list no span lies within the span before it, and at
\* most one span ends at the end of the cleaned text.
NoContainedSpan ==
    pc = "done" =>
        /\ \A k \in 1..(Len(chunks) - 1) :
               ~(SpanStart(k) <= SpanStart(k + 1) /\ SpanEnd(k + 1) <= SpanEnd(k))
        /\ Cardinality({k \in 1..Len(chunks) : SpanEnd(k) = Len(text)}) <= 1

(***************************************************************************)
(* Claims about classify_text.                                             *)
(***************************************************************************)
\* sub is the text between two positions of s
Occurs(sub, s) ==
    \E i \in 1..(Len(s) + 1) :
        i + Len(sub) - 1 <= Len(s) /\ SubSeq(s, i, i + Len(sub) - 1) = sub

\* some synonym of taxonomy item k, lowercased, is a substring of lowercased t
TopicMatches(k, t) ==
    \E j \in 1..Len(TAXONOMY[k].synonyms) :
        Occurs(LowerStr(TAXONOMY[k].synonyms[j]), LowerStr(t))

\* C7: a returned list contains topic T exactly if a synonym of T, lowercased,
\* is a substring of the lowercased text; the result for "OpenAI releases
\* GPT-5 with improved reasoning" contains OpenAI and Reasoning.
ClassifyMatchesSynonyms ==
    \A n \in 1..Len(cl_results) :
        /\ \A k \in 1..Len(TAXONOMY) :
               TAXONOMY[k].keyword \in Range(cl_results[n]) <=> TopicMatches(k, cl_text)
        /\ cl_text = ExampleText => {"OpenAI", "Reasoning"} \subseteq Range(cl_results[n])

\* the example of the specification has been classified
ClassifyMatchesSynonymsWitness ==
    /\ cl_text = ExampleText
    /\ cl_results # <<>>
    /\ cl_results[1] = <<"OpenAI", "Reasoning">>

TopicIndex(keyword) == CHOOSE k \in 1..Len(TAXONOMY) : TAXONOMY[k].keyword = keyword

\* C8: a returned list names topics in strictly increasing taxonomy position
\* (each at most once, in definition order), and a second call on the same
\* text returns the same list as the first.
ClassifyOrderedOnce ==
    \A n \in 1..Len(cl_results) :
        /\ \A i, j \in 1..Len(cl_results[n]) :
               i < j => TopicIndex(cl_results[n][i]) < TopicIndex(cl_results[n][j])
        /\ cl_results[n] = cl_results[1]

\* two calls on "reasoning LLMs": the later topic comes first in the text and
\* two synonyms of LLMs ("llm" and "llms") match
ClassifyOrderedOnceWitness ==
    /\ cl_text = JoinWords(<<<<"r", "e", "a", "s", "o", "n", "i", "n", "g">>, <<"L", "L", "M", "s">>>>)
    /\ Len(cl_results) = MaxCalls
    /\ cl_results[MaxCalls] = <<"LLMs", "Reasoning">>

(***************************************************************************)
(* fetcher.py: _RELEVANCE_TERMS, _score_entry_relevance, fetch_feed        *)
(***************************************************************************)
DefaultMaxArticlesPerFeed == 25

\* mutant: only the first synonym of every keyword
RELEVANCE_TERMSFirst ==
    UNION {{LowerStr(TAXONOMY[k].synonyms[j]) : j \in 1..Min2(1, Len(TAXONOMY[k].synonyms))} :
              k \in 1..Len(TAXONOMY)}

\* lines 33-36: the flat set of lowercased taxonomy terms
RELEVANCE_TERMS ==
    UNION {{LowerStr(TAXONOMY[k].synonyms[j]) : j \in 1..Len(TAXONOMY[k].synonyms)} :
              k \in 1..Len(TAXONOMY)}

\* entry.get(key, "") or ""
GetOrEmpty(entry, key) == IF key \in DOMAIN entry THEN entry[key] ELSE <<>>

\* lines 351-361
score_entry_relevance(entry) ==
    LET lowered == CHOOSE r \in {LowerStr(GetOrEmpty(entry, "title") \o <<SP>>
                                          \o GetOrEmpty(entry, "summary"))} : TRUE
    IN  Cardinality({term \in RELEVANCE_TERMS : Contains(term, lowered)})

\* mutant: a descending sort that reverses the order of equal keys
RECURSIVE SortDescendingUnstable(_, _)
SortDescendingUnstable(s, key) ==
    IF s = <<>> THEN <<>>
    ELSE LET rest   == SortDescendingUnstable(Tail(s), key)
             higher == {i \in 1..Len(rest) : key[rest[i]] >= key[Head(s)]}
             n      == Cardinality(higher)
         IN  SubSeq(rest, 1, n) \o <<Head(s)>> \o SubSeq(rest, n + 1, Len(rest))

\* list.sort(key=..., reverse=True) on positions: stable, descending by key
RECURSIVE SortDescending(_, _)
SortDescending(s, key) ==
    IF s = <<>> THEN <<>>
    ELSE LET rest   == SortDescending(Tail(s), key)
             higher == {i \in 1..Len(rest) : key[rest[i]] > key[Head(s)]}
             n      == Cardinality(higher)
         IN  SubSeq(rest, 1, n) \o <<Head(s)>> \o SubSeq(rest, n + 1, Len(rest))

\* mutant: "len(entries) >= max_articles"
ExceedsCapOrEqual(n, cap) == n >= cap

\* line 392: "len(entries) > max_articles"
ExceedsCap(n, cap) == n > cap

\* lines 379-396: the cap is defaulted and the entries to parse are chosen
FetchFeedSelect ==
    /\ rk_pc = "call"
    /\ LET max_articles == OrDefault(rk_max, DefaultMaxArticlesPerFeed)
           all    == [i \in 1..Len(rk_entries) |-> i]
           scores == [i \in 1..Len(rk_entries) |-> score_entry_relevance(rk_entries[i])]
           scored == SortDescending(all, scores)
       IN  entries' = IF ExceedsCap(Len(rk_entries), max_articles)
                      THEN SubSeq(scored, 1, Min2(max_articles, Len(scored)))
                      ELSE all
    /\ rk_pc' = "done"
    /\ UNCHANGED <<rk_entries, rk_max>>

\* longest feed
MaxEntries == 3

\* largest max_articles argument
MaxCap == 3

\* feed entries: with and without title or summary, scoring 0, 1, 1, 1 and 3
EntryPool ==
    { [title |-> <<"O", "p", "u", "s">>],
      [title |-> <<"C", "l", "a", "u", "d", "e">>, summary |-> <<>>],
      [summary |-> <<"w", "o", "r", "l", "d">>],
      [title |-> <<"S", "a", "m">>, summary |-> <<"A", "l", "t", "m", "a", "n">>],
      [title |-> <<"O", "p", "e", "n", "A", "I", " ", "G", "P", "T", "-", "5">>, summary |-> <<"r", "e", "a", "s", "o", "n", "i", "n", "g">>] }

RankInit ==
    /\ rk_entries \in SeqsUpTo(EntryPool, MaxEntries)
    /\ rk_max \in 0..MaxCap
    /\ entries = <<>>
    /\ rk_pc = "call"
    \* chunk_text, the classifier and the merger are not running
    /\ in_text = <<>>
    /\ in_size = 0
    /\ in_overlap = 0
    /\ in_min = 0
    /\ text = <<>>
    /\ chunk_size = 0
    /\ chunk_overlap = 0
    /\ min_chunk_size = 0
    /\ start = 0
    /\ chunks = <<>>
    /\ pc = "idle"
    /\ cl_text = <<>>
    /\ cl_results = <<>>
    /\ all_batch_results = <<>>
    /\ mg_i = 0
    /\ topic_map = <<>>
    /\ mg_k = 0
    /\ canonical = <<>>
    /\ folded = <<>>
    /\ topics = <<>>
    /\ mg_pc = "idle"
    /\ sp_text = <<>>
    /\ sp_target = 0
    /\ sp_result = 0
    /\ sp_pc = "idle"
    /\ cn_text = <<>>
    /\ cn_result = <<>>
    /\ cn_pc = "idle"
    /\ sc_entry = <<>>
    /\ sc_score = 0
    /\ sc_pc = "idle"

RankNext == FetchFeedSelect

RankSpec ==
    RankInit
        /\ [][RankNext /\ UNCHANGED <<chunk_vars, classify_vars, merge_vars, split_vars, clean_vars, score_vars>>]_vars

(***************************************************************************)
(* Claims about the top-K step of fetch_feed.                              *)
(***************************************************************************)
\* the number of taxonomy terms that occur in lowercased title + ' ' + summary
Relevance(i) ==
    LET e == rk_entries[i]
        t == LowerStr((IF "title" \in DOMAIN e THEN e.title ELSE <<>>) \o <<SP>>
                         \o (IF "summary" \in DOMAIN e THEN e.summary ELSE <<>>))
    IN  Cardinality({term \in RELEVANCE_TERMS : Occurs(term, t)})

\* C9: when the feed has no more entries than the max_articles argument, the
\* entries chosen are all the entries, in feed order.
RankerPassThrough ==
    rk_pc = "done" /\ Len(rk_entries) <= rk_max
        => entries = [i \in 1..Len(rk_entries) |-> i]

\* a feed of exactly max_articles entries whose first scores below its second
RankerPassThroughWitness ==
    /\ rk_pc = "done"
    /\ Len(rk_entries) = rk_max
    /\ rk_max >= 2
    /\ Relevance(1) < Relevance(2)
    /\ entries = [i \in 1..Len(rk_entries) |-> i]

\* C10: when the feed has more entries than the max_articles argument k, the
\* entries chosen are exactly k distinct entries, in non-increasing relevance,
\* none scoring below an entry that was not chosen.
RankerTopK ==
    rk_pc = "done" /\ Len(rk_entries) > rk_max
        => /\ Len(entries) = rk_max
           /\ \A i \in 1..Len(entries) : entries[i] \in 1..Len(rk_entries)
           /\ \A i, j \in 1..Len(entries) : i < j => entries[i] # entries[j]
           /\ \A i, j \in 1..Len(entries) :
                  i < j => Relevance(entries[i]) >= Relevance(entries[j])
           /\ \A i \in 1..Len(entries) :
                  \A m \in (1..Len(rk_entries)) \ Range(entries) :
                      Relevance(entries[i]) >= Relevance(m)

\* C11: when the feed has more entries than the max_articles argument, chosen
\* entries of equal relevance appear in feed order, and an entry that was not
\* chosen but ties with a chosen one comes later in the feed than it.
RankerStable ==
    rk_pc = "done" /\ Len(rk_entries) > rk_max
        => /\ \A i, j \in 1..Len(entries) :
                  i < j /\ Relevance(entries[i]) = Relevance(entries[j])
                      => entries[i] < entries[j]
           /\ \A i \in 1..Len(entries) :
                  \A m \in (1..Len(rk_entries)) \ Range(entries) :
                      Relevance(m) = Relevance(entries[i]) => entries[i] < m

\* a feed cut to two entries of equal relevance, a third tied entry left out
RankerStableWitness ==
    /\ rk_pc = "done"
    /\ rk_max = 2
    /\ Len(rk_entries) = 3
    /\ Len(entries) = 2
    /\ Relevance(1) > 0
    /\ Relevance(1) = Relevance(2)
    /\ Relevance(2) = Relevance(3)
    /\ entries = <<1, 2>>

(***************************************************************************)
(* analyze_topics.py: merge_topics                                         *)
(***************************************************************************)
\* the characters of topic names and examples, in code point order
CodeOrder ==
    <<SP, "0", "1", "2", "3", "4", "5", "6", "7", "8", "9",
      "A", "B", "C", "D", "E", "F", "G", "H", "I", "J", "K", "L", "M",
      "N", "O", "P", "Q", "R", "S", "T", "U", "V", "W", "X", "Y", "Z",
      "a", "b", "c", "d", "e", "f", "g", "h", "i", "j", "k", "l", "m",
      "n", "o", "p", "q", "r", "s", "t", "u", "v", "w", "x", "y", "z">>

Ord(c) == CHOOSE i \in 1..Len(CodeOrder) : CodeOrder[i] = c

\* s < t on two strings
StrLess(s, t) ==
    \E i \in 1..(Min2(Len(s), Len(t)) + 1) :
        /\ \A j \in 1..(i - 1) : s[j] = t[j]
        /\ i <= Len(t)
        /\ (i <= Len(s) => Ord(s[i]) < Ord(t[i]))

\* sorted(S) on a set of strings
RECURSIVE Sorted(_)
Sorted(S) ==
    IF S = {} THEN <<>>
    ELSE LET m == CHOOSE x \in S : \A y \in S \ {x} : StrLess(x, y)
         IN  <<m>> \o Sorted(S \ {m})

\* set(s.split())
WordSet(s) ==
    {SubSeq(s, p[1], p[2]) :
        p \in {q \in (1..Len(s)) \X (1..Len(s)) :
                  /\ q[1] <= q[2]
                  /\ \A k \in q[1]..q[2] : ~IsSpace(s[k])
                  /\ (q[1] = 1 \/ IsSpace(s[q[1] - 1]))
                  /\ (q[2] = Len(s) \/ IsSpace(s[q[2] + 1]))}}

IsCased(c) == c \in DOMAIN UpperToLower \/ \E u \in DOMAIN UpperToLower : UpperToLower[u] = c

\* str.upper() on one ASCII character
Upper(c) ==
    IF \E u \in DOMAIN UpperToLower : UpperToLower[u] = c
    THEN CHOOSE u \in DOMAIN UpperToLower : UpperToLower[u] = c
    ELSE c

\* s.title()
Title(s) ==
    [i \in 1..Len(s) |-> IF i = 1 \/ ~IsCased(s[i - 1]) THEN Upper(s[i]) ELSE Lower(s[i])]

\* line 168: batch_result.get("topics", [])
GetTopics(batch_result) ==
    IF "topics" \in DOMAIN batch_result THEN batch_result.topics ELSE <<>>

\* lines 167-168: the observations in the order the two loops visit them
RECURSIVE Observations(_)
Observations(batches) ==
    IF batches = <<>> THEN <<>>
    ELSE GetTopics(Head(batches)) \o Observations(Tail(batches))

\* line 170: topic.get("count", 1)
GetCount(topic) == IF "count" \in DOMAIN topic THEN topic.count ELSE 1

\* line 171: topic.get("examples", [])
GetExamples(topic) == IF "examples" \in DOMAIN topic THEN topic.examples ELSE <<>>

\* line 169: topic["name"].strip().lower()
RawKey(topic) == LowerStr(PyStrip(topic.name))

\* line 165: defaultdict(lambda: {"count": 0, "examples": set()})
EmptyMap == [k \in {} |-> [count |-> 0, examples |-> {}]]

\* mutant: the examples of the latest observation replace the earlier ones
AddObservationLatest(tm, topic) ==
    LET name == RawKey(topic)
        old  == IF name \in DOMAIN tm THEN tm[name] ELSE [count |-> 0, examples |-> {}]
    IN  [k \in DOMAIN tm \cup {name} |->
            IF k = name
            THEN [count |-> old.count + GetCount(topic),
                  examples |-> Range(GetExamples(topic))]
            ELSE tm[k]]

\* lines 169-172: one observation with a name is added to topic_map
AddObservation(tm, topic) ==
    LET name == RawKey(topic)
        old  == IF name \in DOMAIN tm THEN tm[name] ELSE [count |-> 0, examples |-> {}]
    IN  [k \in DOMAIN tm \cup {name} |->
            IF k = name
            THEN [count |-> old.count + GetCount(topic),
                  examples |-> old.examples \cup Range(GetExamples(topic))]
            ELSE tm[k]]

\* mutant: only "canon in name"
SubstringRelatedOneWay(name, canon) == Contains(canon, name)

\* line 181: "name in canon or canon in name"
SubstringRelated(name, canon) == Contains(name, canon) \/ Contains(canon, name)

\* mutant: one common word is enough
WordOverlapAny(name, canon) ==
    LET name_words  == WordSet(name)
        canon_words == WordSet(canon)
    IN  /\ Cardinality(name_words) >= 2
        /\ Cardinality(canon_words) >= 2
        /\ Cardinality(name_words \cap canon_words) >= 1

\* lines 187-191: both keys have two or more distinct words and the common
\* words are at least as many as the distinct words of one of them
WordOverlap(name, canon) ==
    LET name_words  == WordSet(name)
        canon_words == WordSet(canon)
    IN  /\ Cardinality(name_words) >= 2
        /\ Cardinality(canon_words) >= 2
        /\ Cardinality(name_words \cap canon_words)
               >= Min2(Cardinality(name_words), Cardinality(canon_words))

\* mutant: the bucket is never re-keyed
ShortWinsNever(name, canon) == FALSE

\* line 192: "len(name) < len(canon)"
ShortWins(name, canon) == Len(name) < Len(canon)

\* mutant: the last key that name merges with
FirstMatchLast(canon, name) ==
    LET hits == {i \in 1..Len(canon) :
                    SubstringRelated(name, canon[i].name) \/ WordOverlap(name, canon[i].name)}
    IN  IF hits = {} THEN 0 ELSE CHOOSE i \in hits : \A j \in hits : i >= j

\* lines 179-201: the position in canonical of the first key that name merges
\* with, 0 when there is none
FirstMatch(canon, name) ==
    LET hits == {i \in 1..Len(canon) :
                    SubstringRelated(name, canon[i].name) \/ WordOverlap(name, canon[i].name)}
    IN  IF hits = {} THEN 0 ELSE CHOOSE i \in hits : \A j \in hits : i <= j

\* lines 193-201: whether the bucket at position i is re-keyed to name
Rekeys(canon, i, name) ==
    /\ i # 0
    /\ ~SubstringRelated(name, canon[i].name)
    /\ ShortWins(name, canon[i].name)

RemoveAt(s, i) == SubSeq(s, 1, i - 1) \o SubSeq(s, i + 1, Len(s))

\* mutant: the re-keyed bucket starts from the new key's data alone
RekeyedFresh(old, name, data) ==
    [name |-> name, count |-> data.count, examples |-> data.examples]

\* lines 193-196: canonical.pop(canon) under the new key, plus the new data
Rekeyed(old, name, data) ==
    [name |-> name, count |-> old.count + data.count,
     examples |-> old.examples \cup data.examples]

\* lines 178-203: one raw key is merged into canonical, a dict in insertion
\* order modelled as a sequence of buckets
CanonStep(canon, name, data) ==
    LET i == FirstMatch(canon, name)
    IN  IF i = 0
        THEN Append(canon, [name |-> name, count |-> data.count,
                            examples |-> data.examples])
        ELSE IF Rekeys(canon, i, name)
        THEN Append(RemoveAt(canon, i), Rekeyed(canon[i], name, data))
        ELSE [canon EXCEPT ![i] = [name |-> canon[i].name,
                                   count |-> canon[i].count + data.count,
                                   examples |-> canon[i].examples \cup data.examples]]

\* mutant: every example is kept
CapExamplesNone(s) == s

\* line 210: [:5]
CapExamples(s) == SubSeq(s, 1, Min2(5, Len(s)))

\* mutant: the topics are left in dict order
SortTopicsNone(ts) == ts

\* line 217: topics.sort(key=lambda t: t["count"], reverse=True)
SortTopics(ts) ==
    LET order == SortDescending([i \in 1..Len(ts) |-> i],
                                [i \in 1..Len(ts) |-> ts[i].count])
    IN  [i \in 1..Len(ts) |-> ts[order[i]]]

\* lines 205-218
Finish(canon) ==
    SortTopics([i \in 1..Len(canon) |->
                   [name |-> Title(canon[i].name),
                    count |-> canon[i].count,
                    examples |-> CapExamples(Sorted(canon[i].examples))]])

\* lines 167-172 for observations that all have "name"
RECURSIVE CollectAll(_, _)
CollectAll(tm, obs) ==
    IF obs = <<>> THEN tm
    ELSE CollectAll(AddObservation(tm, Head(obs)), Tail(obs))

\* lines 177-203 for the sorted raw keys
RECURSIVE CanonAll(_, _, _)
CanonAll(canon, names, tm) ==
    IF names = <<>> THEN canon
    ELSE CanonAll(CanonStep(canon, Head(names), tm[Head(names)]), Tail(names), tm)

\* the value merge_topics returns when it does not raise
merge_topics(batches) ==
    LET tm == CollectAll(EmptyMap, Observations(batches))
    IN  Finish(CanonAll(<<>>, Sorted(DOMAIN tm), tm))

\* lines 167-172, one observation: KeyError leaves merge_topics
MergeCollect ==
    /\ mg_pc = "collect"
    /\ mg_i < Len(Observations(all_batch_results))
    /\ LET topic == Observations(all_batch_results)[mg_i + 1]
       IN  IF "name" \in DOMAIN topic
           THEN /\ topic_map' = AddObservation(topic_map, topic)
                /\ mg_i' = mg_i + 1
                /\ mg_pc' = "collect"
           ELSE /\ mg_pc' = "raised"
                /\ UNCHANGED <<topic_map, mg_i>>
    /\ UNCHANGED <<all_batch_results, mg_k, canonical, folded, topics>>

\* lines 176-177: canonical = {} and the raw keys are sorted
MergeSortKeys ==
    /\ mg_pc = "collect"
    /\ mg_i = Len(Observations(all_batch_results))
    /\ canonical' = <<>>
    /\ mg_k' = 0
    /\ mg_pc' = "canon"
    /\ UNCHANGED <<all_batch_results, mg_i, topic_map, folded, topics>>

\* lines 177-203, one raw key; folded records, for each canonical key, the
\* raw keys merged into its bucket
MergeCanon ==
    /\ mg_pc = "canon"
    /\ mg_k < Cardinality(DOMAIN topic_map)
    /\ LET name == Sorted(DOMAIN topic_map)[mg_k + 1]
           i    == FirstMatch(canonical, name)
           keys == IF i = 0 THEN DOMAIN folded \cup {name}
                   ELSE IF Rekeys(canonical, i, name)
                   THEN (DOMAIN folded \ {canonical[i].name}) \cup {name}
                   ELSE DOMAIN folded
       IN  /\ canonical' = CanonStep(canonical, name, topic_map[name])
           /\ folded' = [c \in keys |->
                            IF i = 0 THEN (IF c = name THEN {name} ELSE folded[c])
                            ELSE IF Rekeys(canonical, i, name)
                            THEN (IF c = name THEN folded[canonical[i].name] \cup {name}
                                  ELSE folded[c])
                            ELSE (IF c = canonical[i].name THEN folded[c] \cup {name}
                                  ELSE folded[c])]
    /\ mg_k' = mg_k + 1
    /\ UNCHANGED <<all_batch_results, mg_i, topic_map, topics, mg_pc>>

\* lines 205-218: the topics are built, sorted and returned
MergeFinish ==
    /\ mg_pc = "canon"
    /\ mg_k = Cardinality(DOMAIN topic_map)
    /\ topics' = Finish(canonical)
    /\ mg_pc' = "done"
    /\ UNCHANGED <<all_batch_results, mg_i, topic_map, mg_k, canonical, folded>>

\* most observations in a call
MaxObs == 3

\* observations: names with case and blanks, related by substring and by
\* common words, with and without count, examples and name
ObservationPool ==
    { [name |-> <<" ", "A", "I", " ", "S", "a", "f", "e", "t", "y", " ">>, count |-> 3, examples |-> <<<<"b">>, <<"c">>, <<"Z">>>>],
      [name |-> <<"a", "i", " ", "s", "a", "f", "e", "t", "y", " ", "r", "e", "s", "e", "a", "r", "c", "h">>, count |-> 2, examples |-> <<<<"a">>, <<"a", "b">>, <<"e">>, <<"c">>>>],
      [name |-> <<"s", "a", "f", "e", "t", "y", " ", "s", "a", "f", "e", "t", "y", " ", "a", "i">>, count |-> 1, examples |-> <<<<"d">>>>],
      [name |-> <<"R", "e", "s", "e", "a", "r", "c", "h", " ", "A", "I">>, count |-> 4],
      [name |-> <<"r", "a", "g", " ", "r", "e", "s", "e", "a", "r", "c", "h", " ", "a", "i">>, count |-> 5, examples |-> <<<<"r">>>>],
      [name |-> <<"a", "i", " ", "s", "a", "f", "e", "t", "y">>, examples |-> <<<<"x">>>>],
      [count |-> 2, examples |-> <<<<"g">>>>] }

\* the ways a list of observations arrives: as one batch, split over two
\* batches, or after a batch result without the "topics" key
Layouts(obs) ==
    {<<[topics |-> obs]>>, <<[summary |-> <<>>], [topics |-> obs]>>}
        \cup {<<[topics |-> SubSeq(obs, 1, n)], [topics |-> SubSeq(obs, n + 1, Len(obs))]>> :
                 n \in 1..(Len(obs) - 1)}
        \cup (IF obs = <<>> THEN {<<>>} ELSE {})

MergeInputs == UNION {Layouts(obs) : obs \in SeqsUpTo(ObservationPool, MaxObs)}

MergeInit ==
    /\ all_batch_results \in MergeInputs
    /\ mg_i = 0
    /\ topic_map = EmptyMap
    /\ mg_k = 0
    /\ canonical = <<>>
    /\ folded = <<>>
    /\ topics = <<>>
    /\ mg_pc = "collect"
    \* chunk_text, the classifier and the ranker are not running
    /\ in_text = <<>>
    /\ in_size = 0
    /\ in_overlap = 0
    /\ in_min = 0
    /\ text = <<>>
    /\ chunk_size = 0
    /\ chunk_overlap = 0
    /\ min_chunk_size = 0
    /\ start = 0
    /\ chunks = <<>>
    /\ pc = "idle"
    /\ cl_text = <<>>
    /\ cl_results = <<>>
    /\ rk_entries = <<>>
    /\ rk_max = 0
    /\ entries = <<>>
    /\ rk_pc = "idle"
    /\ sp_text = <<>>
    /\ sp_target = 0
    /\ sp_result = 0
    /\ sp_pc = "idle"
    /\ cn_text = <<>>
    /\ cn_result = <<>>
    /\ cn_pc = "idle"
    /\ sc_entry = <<>>
    /\ sc_score = 0
    /\ sc_pc = "idle"

MergeNext == MergeCollect \/ MergeSortKeys \/ MergeCanon \/ MergeFinish

MergeSpec ==
    MergeInit
        /\ [][MergeNext /\ UNCHANGED <<chunk_vars, classify_vars, rank_vars, split_vars, clean_vars, score_vars>>]_vars

(***************************************************************************)
(* Claims about merge_topics.                                              *)
(***************************************************************************)
RECURSIVE SumCounts(_)
SumCounts(s) == IF s = <<>> THEN 0 ELSE Head(s).count + SumCounts(Tail(s))

\* the observations of the call whose normalised name is in the set K
ObservationsOf(K) ==
    SelectSeq(Observations(all_batch_results), LAMBDA o : RawKey(o) \in K)

WellFormed ==
    \A i \in 1..Len(Observations(all_batch_results)) :
        {"name", "count"} \subseteq DOMAIN Observations(all_batch_results)[i]

\* C12: when merge_topics returns for observations that all carry a name and
\* a count, the counts of the returned topics add up to the counts of the
\* observations; every raw key was merged into exactly one bucket, and each
\* bucket's count is the sum over the observations of its raw keys.
MergeCountConserved ==
    mg_pc = "done" /\ WellFormed
        => /\ SumCounts(topics) = SumCounts(Observations(all_batch_results))
           /\ \A k \in DOMAIN topic_map :
                  Cardinality({c \in DOMAIN folded : k \in folded[c]}) = 1
           /\ \A i \in 1..Len(canonical) :
                  canonical[i].count = SumCounts(ObservationsOf(folded[canonical[i].name]))

\* a returned merge in which a bucket was re-keyed to a later raw key
MergeCountConservedWitness ==
    /\ mg_pc = "done"
    /\ WellFormed
    /\ \E c \in DOMAIN folded : \E k \in folded[c] : StrLess(k, c)
    /\ SumCounts(topics) >= 6

\* the raw key that lines 177-203 process next
NextKey == Sorted(DOMAIN topic_map)[mg_k + 1]

\* one raw key is processed by this step
CanonStepTaken == mg_pc = "canon" /\ mg_k' = mg_k + 1

Related(k, c) == Occurs(k, c) \/ Occurs(c, k)

\* canonical[i] is the first key, in dict order, that k is merged with
FirstMerged(k, i) ==
    /\ i \in 1..Len(canonical)
    /\ Related(k, canonical[i].name) \/ WordOverlap(k, canonical[i].name)
    /\ \A j \in 1..(i - 1) :
           ~Related(k, canonical[j].name) /\ ~WordOverlap(k, canonical[j].name)

\* bucket i after the data of raw key k is added to it
Folded(i, k) ==
    [name |-> canonical[i].name,
     count |-> canonical[i].count + topic_map[k].count,
     examples |-> canonical[i].examples \cup topic_map[k].examples]

AiSafety == <<"a", "i", " ", "s", "a", "f", "e", "t", "y">>

AiSafetyResearch == <<"a", "i", " ", "s", "a", "f", "e", "t", "y", " ", "r", "e", "s", "e", "a", "r", "c", "h">>

\* the call is given just "ai safety" (count 3) and "ai safety research" (count 2)
SubstringExample ==
    LET obs == Observations(all_batch_results)
    IN  /\ Len(obs) = 2
        /\ \E i, j \in 1..2 :
               /\ "name" \in DOMAIN obs[i] /\ "count" \in DOMAIN obs[i]
               /\ "name" \in DOMAIN obs[j] /\ "count" \in DOMAIN obs[j]
               /\ RawKey(obs[i]) = AiSafety /\ obs[i].count = 3
               /\ RawKey(obs[j]) = AiSafetyResearch /\ obs[j].count = 2

\* C13: when the first canonical key c, in dict order, that a raw key k is
\* merged with is one that k is a substring of or contains, the step adds k's
\* count and examples to c's bucket and changes nothing else in canonical (no
\* bucket is added); "ai safety" (3) and "ai safety research" (2) alone are
\* returned as one topic of count 5.
MergeSubstringRule ==
    [][/\ CanonStepTaken =>
              \A i \in 1..Len(canonical) :
                  FirstMerged(NextKey, i) /\ Related(NextKey, canonical[i].name)
                      => canonical' = [canonical EXCEPT ![i] = Folded(i, NextKey)]
       /\ mg_pc' = "done" /\ SubstringExample
              => Len(topics') = 1 /\ topics'[1].count = 5]_vars

\* the returned merge of the example
MergeSubstringRuleWitness ==
    /\ mg_pc = "done"
    /\ SubstringExample
    /\ folded = (AiSafety :> {AiSafety, AiSafetyResearch})
    /\ Len(topics) = 1
    /\ topics[1].count = 5

\* C14: the returned list is in non-increasing order of count.
MergeOrderedByCount ==
    mg_pc = "done" =>
        \A i, j \in 1..Len(topics) : i < j => topics[i].count >= topics[j].count

\* a returned merge whose first two buckets, in dict order, have rising counts
MergeOrderedByCountWitness ==
    /\ mg_pc = "done"
    /\ Len(canonical) >= 2
    /\ canonical[1].count < canonical[2].count
    /\ topics[1].count > topics[2].count

\* the examples of every observation merged into the bucket keyed c
UnionOfExamples(c) ==
    LET obs == ObservationsOf(folded[c])
    IN  UNION {Range(GetExamples(obs[i])) : i \in 1..Len(obs)}

\* C15: the examples of every returned topic are in strictly increasing
\* lexicographic order, at most 5, and are the smallest elements (5, or all
\* if fewer) of the union of the examples of the observations merged into
\* the topic's bucket.
MergeExamplesCapped ==
    mg_pc = "done" =>
        /\ Len(topics) = Len(canonical)
        /\ \A t \in 1..Len(topics) :
               \E i \in 1..Len(canonical) :
                   LET ex == topics[t].examples
                       U  == UnionOfExamples(canonical[i].name)
                   IN  /\ topics[t].name = Title(canonical[i].name)
                       /\ \A a, b \in 1..Len(ex) : a < b => StrLess(ex[a], ex[b])
                       /\ Len(ex) = Min2(5, Cardinality(U))
                       /\ Range(ex) \subseteq U
                       /\ \A e \in U \ Range(ex) : \A x \in Range(ex) : StrLess(x, e)

\* a returned topic with 5 examples out of 6 merged ones, upper case first
MergeExamplesCappedWitness ==
    /\ mg_pc = "done"
    /\ \E t \in 1..Len(topics) :
           /\ Len(topics[t].examples) = 5
           /\ topics[t].examples[1] = <<"Z">>
           /\ \E i \in 1..Len(canonical) :
                  /\ topics[t].name = Title(canonical[i].name)
                  /\ Cardinality(UnionOfExamples(canonical[i].name)) > 5

\* the batches without the observations that are not in the set kept
Filter(batches, kept) ==
    [b \in 1..Len(batches) |->
        IF "topics" \in DOMAIN batches[b]
        THEN [topics |-> SelectSeq(batches[b].topics, LAMBDA o : o \in kept)]
        ELSE batches[b]]

\* the observations that have "name"
Named == {o \in ObservationPool : "name" \in DOMAIN o}

\* the observations other than those that have "name" but lack "count"
Counted == {o \in ObservationPool : "count" \in DOMAIN o \/ "name" \notin DOMAIN o}

\* C16: when an observation lacks "name", merge_topics does not raise, and
\* what it returns is what it returns for the batches without the
\* observations that lack "name".
MergeSkipsNameless ==
    (\E i \in 1..Len(Observations(all_batch_results)) :
         Observations(all_batch_results)[i] \notin Named)
        => /\ mg_pc # "raised"
           /\ mg_pc = "done" => topics = merge_topics(Filter(all_batch_results, Named))

\* C17: what merge_topics returns is what it returns for the batches without
\* the observations that have "name" but lack "count".
MergeRejectsCountless ==
    mg_pc = "done"
        => topics = merge_topics(Filter(all_batch_results, Counted))

\* the step re-keys bucket i to the raw key k
RekeyedTo(i, k) ==
    /\ Len(canonical') = Len(canonical)
    /\ \E j \in 1..Len(canonical') :
           canonical'[j] = [Folded(i, k) EXCEPT !.name = k]
    /\ \A j \in 1..Len(canonical') : canonical'[j].name # canonical[i].name

\* C18 as stated: when the raw key k and the canonical key c it is merged
\* into satisfy the word-overlap condition and k is strictly shorter than c,
\* the step leaves the bucket keyed by k and no longer by c, with the sum of
\* both counts and the union of both example sets.
MergeShortWins ==
    [][CanonStepTaken =>
           \A i \in 1..Len(canonical) :
               /\ FirstMerged(NextKey, i)
               /\ WordOverlap(NextKey, canonical[i].name)
               /\ Len(NextKey) < Len(canonical[i].name)
               => RekeyedTo(i, NextKey)]_vars

\* C18, amended: the same, for a raw key k that is neither a substring of c
\* nor contains c, so that the merge is made by the word-overlap rule.
MergeShortWinsByOverlap ==
    [][CanonStepTaken =>
           \A i \in 1..Len(canonical) :
               /\ FirstMerged(NextKey, i)
               /\ ~Related(NextKey, canonical[i].name)
               /\ WordOverlap(NextKey, canonical[i].name)
               /\ Len(NextKey) < Len(canonical[i].name)
               => RekeyedTo(i, NextKey)]_vars

\* a bucket keyed by a raw key that took it over from a longer key with
\* the same words
MergeShortWinsByOverlapWitness ==
    /\ mg_pc = "canon"
    /\ \E i \in 1..Len(canonical) :
           \E c \in folded[canonical[i].name] :
               /\ Len(canonical[i].name) < Len(c)
               /\ StrLess(c, canonical[i].name)
               /\ WordOverlap(canonical[i].name, c)
               /\ ~Related(canonical[i].name, c)
               /\ folded[canonical[i].name] = {c, canonical[i].name}
               /\ canonical[i].count = topic_map[c].count + topic_map[canonical[i].name].count

\* the raw keys that lines 177-203 have processed so far
Processed == UNION {folded[c] : c \in DOMAIN folded}

\* the bucket a raw key k starts when it merges with no canonical key
NewBucket(k) ==
    [name |-> k, count |-> topic_map[k].count, examples |-> topic_map[k].examples]

\* C25: each step of the canonicalisation takes the smallest raw key, in
\* lexicographic order, that is not processed yet, and folds it into one
\* bucket: that of the first canonical key, in insertion order, that it is
\* substring-related to or shares its words with (kept in place, or re-keyed
\* to the raw key), every other bucket unchanged; or, when there is no such
\* key, a new bucket keyed by the raw key itself.
MergeGreedyFirstMatch ==
    [][CanonStepTaken =>
           \E k \in DOMAIN topic_map \ Processed :
               /\ \A o \in Processed : StrLess(o, k)
               /\ \A o \in DOMAIN topic_map \ Processed : o = k \/ StrLess(k, o)
               /\ IF \E i \in 1..Len(canonical) : FirstMerged(k, i)
                  THEN \E i \in 1..Len(canonical) :
                          /\ FirstMerged(k, i)
                          /\ \/ canonical' = [canonical EXCEPT ![i] = Folded(i, k)]
                             \/ /\ RekeyedTo(i, k)
                                /\ \A j \in 1..Len(canonical) :
                                       j # i => \E m \in 1..Len(canonical') :
                                                   canonical'[m] = canonical[j]
                  ELSE canonical' = Append(canonical, NewBucket(k))]_vars

\* a raw key that matched two canonical keys was folded into the bucket of
\* the first of them, which it took over
MergeGreedyFirstMatchWitness ==
    /\ mg_pc = "canon"
    /\ \E i, j \in 1..Len(canonical) :
           /\ i # j
           /\ StrLess(canonical[j].name, canonical[i].name)
           /\ Related(canonical[i].name, canonical[j].name)
           /\ \E c \in folded[canonical[i].name] :
                  /\ StrLess(c, canonical[j].name)
                  /\ WordOverlap(canonical[i].name, c)
                  /\ ~Related(c, canonical[j].name)
                  /\ ~WordOverlap(c, canonical[j].name)

\* the step folds the raw key k into bucket i, in place or re-keyed to k
MergedInto(i, k) ==
    \/ canonical' = [canonical EXCEPT ![i] = Folded(i, k)]
    \/ RekeyedTo(i, k)

\* bucket i is examined for the raw key k and the substring test fails
ReachesOverlapTest(k, i) ==
    /\ \A j \in 1..(i - 1) :
           ~Related(k, canonical[j].name) /\ ~WordOverlap(k, canonical[j].name)
    /\ ~Related(k, canonical[i].name)

SafetySafetyAi == <<"s", "a", "f", "e", "t", "y", " ", "s", "a", "f", "e", "t", "y", " ", "a", "i">>

\* C26 as stated: a raw key k that reaches the word-overlap test against a
\* canonical key c is merged into c exactly when both have two or more
\* whitespace-separated words and the distinct words they share are at least
\* min(wordCount(k), wordCount(c)), wordCount counting repeated words.
MergeWordOverlapCounted ==
    [][CanonStepTaken =>
           \A i \in 1..Len(canonical) :
               ReachesOverlapTest(NextKey, i) =>
                   LET wordCount(s) ==
                           Cardinality({q \in 1..Len(s) :
                                           /\ ~IsSpace(s[q])
                                           /\ (q = 1 \/ IsSpace(s[q - 1]))})
                       k == NextKey
                       c == canonical[i].name
                   IN  MergedInto(i, k) <=>
                           /\ wordCount(k) >= 2
                           /\ wordCount(c) >= 2
                           /\ Cardinality(WordSet(k) \cap WordSet(c))
                                  >= Min2(wordCount(k), wordCount(c))]_vars

\* C26, amended: the same, with the number of distinct words of each key in
\* place of wordCount.
MergeWordOverlapDistinct ==
    [][CanonStepTaken =>
           \A i \in 1..Len(canonical) :
               ReachesOverlapTest(NextKey, i) =>
                   LET k == NextKey
                       c == canonical[i].name
                   IN  MergedInto(i, k) <=>
                           /\ Cardinality(WordSet(k)) >= 2
                           /\ Cardinality(WordSet(c)) >= 2
                           /\ Cardinality(WordSet(k) \cap WordSet(c))
                                  >= Min2(Cardinality(WordSet(k)), Cardinality(WordSet(c)))]_vars

\* "safety safety ai", three words of which two are distinct, was merged
\* with "ai safety research" by word overlap
MergeWordOverlapDistinctWitness ==
    /\ mg_pc = "canon"
    /\ SafetySafetyAi \in DOMAIN folded
    /\ folded[SafetySafetyAi] = {AiSafetyResearch, SafetySafetyAi}
    /\ ~Related(SafetySafetyAi, AiSafetyResearch)

\* the observations with those at positions i and i + 1 exchanged
SwapAt(obs, i) ==
    [j \in 1..Len(obs) |-> IF j = i THEN obs[i + 1] ELSE IF j = i + 1 THEN obs[i] ELSE obs[j]]

\* C27: the list merge_topics returns is the one it returns for the same
\* observations given as a single batch, and for the observations with any
\* two neighbours exchanged; exchanges of neighbours make up every
\* reordering, and every split into batches has the same single batch.
MergePermutationInvariant ==
    mg_pc = "done" =>
        LET obs == Observations(all_batch_results)
        IN  /\ topics = merge_topics(<<[topics |-> obs]>>)
            /\ \A i \in 1..(Len(obs) - 1) :
                   topics = merge_topics(<<[topics |-> SwapAt(obs, i)]>>)

\* a returned merge of two batches in which two different observations have
\* the same raw key and a third one has another
MergePermutationInvariantWitness ==
    /\ mg_pc = "done"
    /\ Len(all_batch_results) = 2
    /\ \A b \in 1..2 : GetTopics(all_batch_results[b]) # <<>>
    /\ Len(topics) >= 2
    /\ LET obs == Observations(all_batch_results)
       IN  \E i, j \in 1..Len(obs) :
               /\ i < j
               /\ obs[i] # obs[j]
               /\ RawKey(obs[i]) = RawKey(obs[j])
               /\ GetExamples(obs[i]) # GetExamples(obs[j])

\* C28: no two topics merge_topics returns have names, compared in lower
\* case, of which one is a substring of the other.
MergeNoSubstringNames ==
    mg_pc = "done" =>
        \A i, j \in 1..Len(topics) :
            i # j => ~Occurs(LowerStr(topics[i].name), LowerStr(topics[j].name))

(***************************************************************************)
(* find_split_point as a function of its own: processor.py 102-140         *)
(***************************************************************************)
MaxSplitLen == 4

\* The long texts put a boundary one hundred positions or so before the
\* target, on either side of the edge of the search window.
SplitHeads == {<<".", SP>>, <<NL, NL>>, <<SP>>, <<",", SP>>, <<"a">>}

SplitTails == {<<>>, <<"a">>, <<SP>>, <<",">>}

LongSplitTexts ==
    {h \o Repeat(<<"a">>, p) \o tl :
        h \in SplitHeads, p \in (SearchRange - 2)..SearchRange, tl \in SplitTails}

SplitTexts == (SeqsUpTo(ChunkAlphabet, MaxSplitLen) \ {<<>>}) \cup LongSplitTexts

SplitInit ==
    /\ sp_text \in SplitTexts
    /\ sp_target \in IF sp_text \in LongSplitTexts
                      THEN (Len(sp_text) - 2)..Len(sp_text)
                      ELSE 1..Len(sp_text)
    /\ sp_result = 0
    /\ sp_pc = "call"
    /\ in_text = <<>>
    /\ in_size = 0
    /\ in_overlap = 0
    /\ in_min = 0
    /\ text = <<>>
    /\ chunk_size = 0
    /\ chunk_overlap = 0
    /\ min_chunk_size = 0
    /\ start = 0
    /\ chunks = <<>>
    /\ pc = "idle"
    /\ cl_text = <<>>
    /\ cl_results = <<>>
    /\ rk_entries = <<>>
    /\ rk_max = 0
    /\ entries = <<>>
    /\ rk_pc = "idle"
    /\ all_batch_results = <<>>
    /\ mg_i = 0
    /\ topic_map = <<>>
    /\ mg_k = 0
    /\ canonical = <<>>
    /\ folded = <<>>
    /\ topics = <<>>
    /\ mg_pc = "idle"
    /\ cn_text = <<>>
    /\ cn_result = <<>>
    /\ cn_pc = "idle"
    /\ sc_entry = <<>>
    /\ sc_score = 0
    /\ sc_pc = "idle"

SplitCall ==
    /\ sp_pc = "call"
    /\ sp_result' = find_split_point(sp_text, sp_target)
    /\ sp_pc' = "done"
    /\ UNCHANGED <<sp_text, sp_target>>

SplitNext == SplitCall

SplitSpec ==
    /\ SplitInit
    /\ [][SplitNext /\ UNCHANGED <<chunk_vars, classify_vars, rank_vars, merge_vars, clean_vars, score_vars>>]_vars

(***************************************************************************)
(* Claims about find_split_point                                           *)
(***************************************************************************)
\* The character at Python position i of the text being split.
SplitAt(i) == sp_text[i + 1]

ParagraphBreakAt(i) ==
    i + 1 < Len(sp_text) /\ SplitAt(i) = NL /\ SplitAt(i + 1) = NL

\* The rank of the boundary the loops find at position i: 1 paragraph break,
\* 2 sentence ending, 3 clause boundary, 4 word boundary, 0 none.
ExaminedRank(i) ==
    IF ParagraphBreakAt(i) THEN 1
    ELSE IF /\ SplitAt(i) \in {".", "!", "?"}
            /\ (i + 1 = Len(sp_text) \/ SplitAt(i + 1) \in {SP, NL}) THEN 2
    ELSE IF /\ SplitAt(i) \in {",", ";", ":"}
            /\ (i + 1 = Len(sp_text) \/ SplitAt(i + 1) = SP) THEN 3
    ELSE IF SplitAt(i) = SP THEN 4
    ELSE 0

\* The positions the loops examine: range(target_pos, start, -1).
ExaminedWindow ==
    {i \in 1..(Len(sp_text) - 1) : sp_target - SearchRange < i /\ i <= sp_target}

\* C22: find_split_point places the split just past the boundary of the
\* best rank among the hundred positions at or before the target (paragraph
\* break, then sentence terminator before whitespace or the end of the text,
\* then clause mark before a space, then space), the nearest to the target
\* among those of that rank, and at the target when there is none.
SplitBoundaryPriority ==
    sp_pc = "done" =>
        LET window == {i \in 0..(Len(sp_text) - 1) :
                          sp_target - SearchRange < i /\ i <= sp_target}
            rank(i) ==
                IF ParagraphBreakAt(i) THEN 1
                ELSE IF /\ SplitAt(i) \in {".", "!", "?"}
                        /\ (i + 1 = Len(sp_text) \/ IsSpace(SplitAt(i + 1))) THEN 2
                ELSE IF /\ SplitAt(i) \in {",", ";", ":"}
                        /\ i + 1 < Len(sp_text)
                        /\ SplitAt(i + 1) = SP THEN 3
                ELSE IF SplitAt(i) = SP THEN 4
                ELSE 0
            found == {i \in window : rank(i) # 0}
        IN  IF found = {} THEN sp_result = sp_target
            ELSE \E i \in found :
                    /\ \A j \in found :
                           \/ rank(i) < rank(j)
                           \/ rank(i) = rank(j) /\ j <= i
                    /\ sp_result = i + (IF rank(i) = 1 THEN 2 ELSE 1)

\* C22, amended: the same priority holds over the positions the function
\* examines, which leave out position 0 of the text, and with a clause mark
\* that is the last character of the text counted as a clause boundary.
SplitBoundaryPriorityExamined ==
    sp_pc = "done" =>
        LET found == {i \in ExaminedWindow : ExaminedRank(i) # 0}
        IN  IF found = {} THEN sp_result = sp_target
            ELSE \E i \in found :
                    /\ \A j \in found :
                           \/ ExaminedRank(i) < ExaminedRank(j)
                           \/ ExaminedRank(i) = ExaminedRank(j) /\ j <= i
                    /\ sp_result = i + (IF ExaminedRank(i) = 1 THEN 2 ELSE 1)

\* A paragraph break farther from the target wins over a nearer space.
SplitBoundaryPriorityWitness ==
    /\ sp_pc = "done"
    /\ \E i, j \in ExaminedWindow :
           /\ i < j
           /\ ExaminedRank(i) = 1
           /\ ExaminedRank(j) = 4
           /\ sp_result = i + 2

(***************************************************************************)
(* clean_text as a function of its own: processor.py 63-95                 *)
(***************************************************************************)
MaxCleanLen == 6

CleanAlphabet == {"a", SP, NL}

CleanTexts == SeqsUpTo(CleanAlphabet, MaxCleanLen) \cup SeqsUpTo(RawAlphabet, MaxRawLen)

CleanInit ==
    /\ cn_text \in CleanTexts
    /\ cn_result = <<>>
    /\ cn_pc = "call"
    /\ in_text = <<>>
    /\ in_size = 0
    /\ in_overlap = 0
    /\ in_min = 0
    /\ text = <<>>
    /\ chunk_size = 0
    /\ chunk_overlap = 0
    /\ min_chunk_size = 0
    /\ start = 0
    /\ chunks = <<>>
    /\ pc = "idle"
    /\ cl_text = <<>>
    /\ cl_results = <<>>
    /\ rk_entries = <<>>
    /\ rk_max = 0
    /\ entries = <<>>
    /\ rk_pc = "idle"
    /\ all_batch_results = <<>>
    /\ mg_i = 0
    /\ topic_map = <<>>
    /\ mg_k = 0
    /\ canonical = <<>>
    /\ folded = <<>>
    /\ topics = <<>>
    /\ mg_pc = "idle"
    /\ sp_text = <<>>
    /\ sp_target = 0
    /\ sp_result = 0
    /\ sp_pc = "idle"
    /\ sc_entry = <<>>
    /\ sc_score = 0
    /\ sc_pc = "idle"

CleanCall ==
    /\ cn_pc = "call"
    /\ cn_result' = clean_text(cn_text)
    /\ cn_pc' = "done"
    /\ UNCHANGED cn_text

CleanNext == CleanCall

CleanSpec ==
    /\ CleanInit
    /\ [][CleanNext /\ UNCHANGED <<chunk_vars, classify_vars, rank_vars, merge_vars, split_vars, score_vars>>]_vars

(***************************************************************************)
(* Claims about clean_text                                                 *)
(***************************************************************************)
\* C24: the text clean_text returns has no three consecutive newlines, no
\* two consecutive spaces, and no line that starts or ends with whitespace.
CleanedInvariants ==
    cn_pc = "done" =>
        LET r == cn_result
            n == Len(r)
        IN  /\ \A i \in 1..(n - 2) : ~(r[i] = NL /\ r[i + 1] = NL /\ r[i + 2] = NL)
            /\ \A i \in 1..(n - 1) : ~(r[i] = SP /\ r[i + 1] = SP)
            /\ \A i \in 1..n :
                   IsSpace(r[i]) /\ r[i] # NL =>
                       /\ i > 1 /\ r[i - 1] # NL
                       /\ i < n /\ r[i + 1] # NL

(***************************************************************************)
(* _score_entry_relevance and classify_text on the text of one entry:      *)
(* fetcher.py 343-361, taxonomy.py 165-179                                 *)
(***************************************************************************)
ScoreTitles ==
    { <<>>,
      <<"O", "p", "u", "s">>,
      <<"C", "l", "a", "u", "d", "e">>,
      <<"S", "a", "m">>,
      <<"G", "P", "T", "-", "5">>,
      <<"O", "p", "e", "n", "A", "I", " ", "G", "P", "T", "-", "5">> }

ScoreSummaries ==
    { <<>>,
      <<"w", "o", "r", "l", "d">>,
      <<"A", "l", "t", "m", "a", "n">>,
      <<"r", "e", "a", "s", "o", "n", "i", "n", "g">> }

\* entries with and without the title and summary keys
ScoreEntries ==
    {[title |-> t, summary |-> s] : t \in ScoreTitles, s \in ScoreSummaries}
        \cup {[title |-> t] : t \in ScoreTitles}
        \cup {[summary |-> s] : s \in ScoreSummaries}

\* lines 351-355, before .lower(): the text of the entry
EntryText(entry) == GetOrEmpty(entry, "title") \o <<SP>> \o GetOrEmpty(entry, "summary")

TopicalityInit ==
    /\ sc_entry \in ScoreEntries
    /\ sc_score = 0
    /\ sc_pc = "call"
    /\ cl_text = EntryText(sc_entry)
    /\ cl_results = <<>>
    /\ in_text = <<>>
    /\ in_size = 0
    /\ in_overlap = 0
    /\ in_min = 0
    /\ text = <<>>
    /\ chunk_size = 0
    /\ chunk_overlap = 0
    /\ min_chunk_size = 0
    /\ start = 0
    /\ chunks = <<>>
    /\ pc = "idle"
    /\ rk_entries = <<>>
    /\ rk_max = 0
    /\ entries = <<>>
    /\ rk_pc = "idle"
    /\ all_batch_results = <<>>
    /\ mg_i = 0
    /\ topic_map = <<>>
    /\ mg_k = 0
    /\ canonical = <<>>
    /\ folded = <<>>
    /\ topics = <<>>
    /\ mg_pc = "idle"
    /\ sp_text = <<>>
    /\ sp_target = 0
    /\ sp_result = 0
    /\ sp_pc = "idle"
    /\ cn_text = <<>>
    /\ cn_result = <<>>
    /\ cn_pc = "idle"

\* _score_entry_relevance(entry)
ScoreCall ==
    /\ sc_pc = "call"
    /\ sc_score' = score_entry_relevance(sc_entry)
    /\ sc_pc' = "done"
    /\ UNCHANGED <<sc_entry, classify_vars>>

\* classify_text on the text of the entry
ClassifyEntry == Classify /\ UNCHANGED score_vars

TopicalityNext == ScoreCall \/ ClassifyEntry

TopicalitySpec ==
    /\ TopicalityInit
    /\ [][TopicalityNext /\ UNCHANGED <<chunk_vars, rank_vars, merge_vars, split_vars, clean_vars>>]_vars

(***************************************************************************)
(* Claims about the ranker and the classifier together                     *)
(***************************************************************************)
\* C30: on the text of an entry, the score _score_entry_relevance returns is
\* 0 exactly when classify_text returns the empty list.
TopicalityAgrees ==
    sc_pc = "done" =>
        \A n \in 1..Len(cl_results) : (sc_score = 0) <=> (cl_results[n] = <<>>)

\* an entry whose title and summary match nothing alone and a term together,
\* scored above 0 and classified
TopicalityAgreesWitness ==
    /\ sc_pc = "done"
    /\ Len(cl_results) >= 1
    /\ sc_score > 0
    /\ cl_results[1] # <<>>
    /\ {"title", "summary"} \subseteq DOMAIN sc_entry
    /\ classify_text(sc_entry.title) = <<>>
    /\ classify_text(sc_entry.summary) = <<>>

====
